---- MODULE Spec2Model ----
(***************************************************************************)
(* State-machine model of the ComfyUI sticky-notes overlay (web/main.js):  *)
(* the note store, the selection, the per-note gesture closures, the       *)
(* canvas-transform polling loop and the workflow save/load hooks.         *)
(*                                                                         *)
(* Numbers.  JavaScript numbers are IEEE-754 doubles: every arithmetic     *)
(* operation rounds its exact result to the nearest representable value.   *)
(* The model keeps that behaviour in a scaled-down binary format: a value  *)
(* is an integer count of units of 2^-FracBits pixel, and a value is       *)
(* representable when its significand fits PrecBits bits.  FAdd, FSub,     *)
(* FMul and FDiv round to nearest, ties to even, as the double operations  *)
(* do.  Multiplying or dividing by a power of two is exact, as it is for   *)
(* doubles.                                                                *)
(***************************************************************************)
EXTENDS Integers, Sequences, FiniteSets, TLC

(***************************************************************************)
(* Bounds of the model.                                                    *)
(***************************************************************************)
\* Significand width of the scaled-down floating-point format.
PrecBits == 8
\* Binary digits kept after the point: one unit is 2^-FracBits pixel.
FracBits == 2
\* The id counter is not advanced beyond MaxId (creation stops there).
MaxId == 2
\* At most MaxTimers deferred restore callbacks are pending at a time.
MaxTimers == 2
\* Date.now() is not advanced beyond MaxTime.
MaxTime == 2
\* A resize move is followed only while no note grows beyond MaxSize pixels.
MaxSize == 260

(***************************************************************************)
(* Program constants (web/main.js).                                        *)
(***************************************************************************)
DEFAULT_WIDTH == 240
DEFAULT_HEIGHT == 120
MIN_WIDTH == 120
MIN_HEIGHT == 80
DEFAULT_COLOR == "yellow"
DEFAULT_TEXT == "New note..."
NOTE_COLORS == {"yellow", "pink", "blue", "green", "gray"}
\* The restore callback is deferred by setTimeout(..., 100).
RESTORE_DELAY == 100
\* duplicateSelectedNote places the copy 20 world units down and right.
DUPLICATE_OFFSET == 20
\* null, as the value of selectedNoteId (ids start at 1: ++noteIdCounter).
Null == 0
\* document.activeElement when an INPUT or TEXTAREA of the host has focus.
HostInput == -1

(***************************************************************************)
(* JavaScript number arithmetic.                                           *)
(***************************************************************************)
RECURSIVE Pow2(_)
Pow2(k) == IF k = 0 THEN 1 ELSE 2 * Pow2(k - 1)

Unit == Pow2(FracBits)

\* n pixels (or world units), as a model number.
Px(n) == n * Unit

Abs(n) == IF n < 0 THEN -n ELSE n

Max(a, b) == IF a >= b THEN a ELSE b

RECURSIVE ExpFor(_, _, _)
\* The exponent e at which n/d < 2^(PrecBits+e): the rounding position.
ExpFor(n, d, e) ==
    IF n < Pow2(PrecBits + e) * d THEN e ELSE ExpFor(n, d, e + 1)

\* n/d (n >= 0, d > 0) rounded to the nearest representable value, ties to
\* the even significand.
FRoundAbs(n, d) ==
    LET e == ExpFor(n, d, 0)
        dd == d * Pow2(e)
        f == n \div dd
        r == n % dd
        up == (2 * r > dd) \/ (2 * r = dd /\ f % 2 = 1)
    IN (IF up THEN f + 1 ELSE f) * Pow2(e)

FRound(n, d) ==
    IF n = 0 THEN 0
    ELSE IF n > 0 THEN FRoundAbs(n, d) ELSE -FRoundAbs(-n, d)

\* A value is representable when rounding leaves it alone.
Representable(v) == FRound(v, 1) = v

FAdd(a, b) == FRound(a + b, 1)
FSub(a, b) == FRound(a - b, 1)
FMul(a, b) == FRound(a * b, Unit)
\* b > 0 at every use: the divisor is the host's scale.
FDiv(a, b) == FRound(a * Unit, b)

\* The exact quotient n/d is neither a whole number of units nor in the
\* normal range: rounding it loses relative precision (gradual underflow).
Underflows(n, d) == (Abs(n) % d # 0) /\ (Abs(n) < Pow2(PrecBits - 1) * d)

VARIABLES
    stickyNotes,     \* the note store: a sequence of note records
    noteIdCounter,   \* last id handed out
    selectedNoteId,  \* id of the selected note, or Null
    overlay,         \* TRUE once the overlay element exists
    ds,              \* the host's transform: [scale, ox, oy]
    last,            \* lastScale / lastOffset of the polling loop
    isTKeyHeld,      \* creation-mode flag
    clipboardNote,   \* NoClip or the copied snapshot
    timers,          \* pending restore callbacks, in firing order
    activeEl,        \* document.activeElement: Null (the body), a note's
                     \* id (its content region) or HostInput
    now,             \* Date.now()
    raised,          \* the last handler ended by an uncaught exception
    lastOp,          \* the handler that ran last, with its argument
    probe,           \* result of the last pure-function application
    docListeners,    \* the mousemove / mouseup listeners notes registered
                     \* on document
    attempts,        \* attempts of waitForCanvasAndAttach's interval
    interval         \* that interval: "unset" before setup ran (and when
                     \* the first try succeeds), "active", or "cleared"

vars == <<stickyNotes, noteIdCounter, selectedNoteId, overlay, ds, last,
          isTKeyHeld, clipboardNote, timers, activeEl, now, raised, lastOp,
          probe, docListeners, attempts, interval>>

(***************************************************************************)
(* JavaScript values of a persisted record's fields.                       *)
(***************************************************************************)
JUndef == [t |-> "undefined"]
JNum(n) == [t |-> "number", v |-> n]
JStr(s) == [t |-> "string", v |-> s]
JArr(items) == [t |-> "array", v |-> items]
JObj == [t |-> "object"]

\* typeof v === 'number'
IsNumber(v) == v.t = "number"

\* Array.isArray(v)
IsArray(v) == v.t = "array"

\* The truthiness `v || dflt` tests: undefined, 0 and '' are falsy, every
\* array and object is truthy.
Truthy(v) ==
    CASE v.t = "undefined" -> FALSE
      [] v.t = "number" -> v.v # 0
      [] v.t = "string" -> v.v # ""
      [] v.t \in {"array", "object"} -> TRUE

\* v || dflt, as the stored (unwrapped) value.
OrDefault(v, dflt) == IF Truthy(v) THEN v.v ELSE dflt

\* One entry of a saved stickyNotes array: an object, or null.
Rec(x, y, w, h, text, color, createdAt) ==
    [kind |-> "object", x |-> x, y |-> y, width |-> w, height |-> h,
     text |-> text, color |-> color, createdAt |-> createdAt]
NullRec == [kind |-> "null"]

(***************************************************************************)
(* Coordinate conversion.                                                  *)
(***************************************************************************)
\* canvasPos = screenPos / scale - offset, one axis.
ToCanvasAxis_PlusOffset(screen, scale, offset) ==
    FAdd(FDiv(screen, scale), offset)
ToCanvasAxis(screen, scale, offset) == FSub(FDiv(screen, scale), offset)

\* screenPos = (canvasPos + offset) * scale, one axis.
ToScreenAxis(canvas, scale, offset) == FMul(FAdd(canvas, offset), scale)

screenToCanvas(screenX, screenY) ==
    [x |-> ToCanvasAxis(screenX, ds.scale, ds.ox),
     y |-> ToCanvasAxis(screenY, ds.scale, ds.oy)]

canvasToScreen(canvasX, canvasY) ==
    [x |-> ToScreenAxis(canvasX, ds.scale, ds.ox),
     y |-> ToScreenAxis(canvasY, ds.scale, ds.oy)]

(***************************************************************************)
(* The note store.                                                         *)
(*                                                                         *)
(* A note record holds noteData's fields, the part of its element the      *)
(* handlers read or write (style.left/top, the 'selected' class, whether   *)
(* the element is in the overlay, the content's text) and the state of its *)
(* two gesture closures.  The closures' start values are dead once the     *)
(* gesture ends (every mousedown overwrites them) and are kept at 0 then.  *)
(* doc is not program state: it records which loaded document a note was   *)
(* restored from (0: created by the user).                                 *)
(***************************************************************************)
MkNote(id, cx, cy, w, h, text, color, createdAt, left, top, attached, doc) ==
    [id |-> id, canvasX |-> cx, canvasY |-> cy, width |-> w, height |-> h,
     text |-> text, color |-> color, createdAt |-> createdAt,
     isEditing |-> FALSE,
     left |-> left, top |-> top, selected |-> FALSE, attached |-> attached,
     buf |-> text,
     isDragging |-> FALSE, dragStartX |-> 0, dragStartY |-> 0,
     initialLeft |-> 0, initialTop |-> 0,
     isResizing |-> FALSE, resizeStartX |-> 0, resizeStartY |-> 0,
     startWidth |-> 0, startHeight |-> 0,
     cleanupHandlers |-> {},
     doc |-> doc]

\* The closures a note's setup registers on document: the note they belong
\* to and the listener.
DragListeners(id) ==
    {[note |-> id, fn |-> "drag.onMouseMove"],
     [note |-> id, fn |-> "drag.onMouseUp"]}
ResizeListeners(id) ==
    {[note |-> id, fn |-> "resize.onMouseMove"],
     [note |-> id, fn |-> "resize.onMouseUp"]}

\* setupNoteEventHandlers: noteData.cleanupHandlers is assigned a closure
\* that removes the two drag listeners.
setupNoteEventHandlers(n) ==
    [n EXCEPT !.cleanupHandlers = DragListeners(n.id)]

\* setupResizeHandlers: the cleanup closure is replaced by one that calls
\* the existing one and removes the two resize listeners.
setupResizeHandlers_NoChain(n) ==
    [n EXCEPT !.cleanupHandlers = ResizeListeners(n.id)]
setupResizeHandlers(n) ==
    [n EXCEPT !.cleanupHandlers = n.cleanupHandlers \cup ResizeListeners(n.id)]

\* Both setups of a note being created, in the order every creating
\* function calls them.
SetupHandlers(n) == setupResizeHandlers(setupNoteEventHandlers(n))

\* document.addEventListener of both setups, for the notes of after that
\* are not in before.
Registered(before, after) ==
    UNION {DragListeners(after[i].id) \cup ResizeListeners(after[i].id) :
              i \in {j \in 1..Len(after) : after[j].id \notin
                        {before[k].id : k \in 1..Len(before)}}}

Ids(notes) == {notes[i].id : i \in 1..Len(notes)}

\* stickyNotes.find(n => n.id === id); used only where the note exists.
Find(notes, id) == notes[CHOOSE i \in 1..Len(notes) : notes[i].id = id]

\* notes with the note whose id is id replaced by n.
Update(notes, id, n) ==
    [i \in 1..Len(notes) |-> IF notes[i].id = id THEN n ELSE notes[i]]

\* note.offsetLeft / offsetTop: the laid-out position in whole pixels, 0 for
\* an element that is not in the document.
RoundPx(v) == ((v + (Unit \div 2)) \div Unit) * Unit
OffsetLeft(n) == IF n.attached THEN RoundPx(n.left) ELSE 0
OffsetTop(n) == IF n.attached THEN RoundPx(n.top) ELSE 0

(***************************************************************************)
(* Selection.                                                              *)
(***************************************************************************)
RemoveClass(n) == [n EXCEPT !.selected = FALSE]
AddClass(n) == [n EXCEPT !.selected = TRUE]

\* deselectAllNotes: the elements afterwards (selectedNoteId becomes null).
deselectAllNotes(notes, sel) ==
    IF sel # Null
    THEN Update(notes, sel, RemoveClass(Find(notes, sel)))
    ELSE notes

\* selectNote(noteId): the elements afterwards (selectedNoteId becomes noteId).
selectNote_NoDeselect(notes, sel, noteId) ==
    Update(notes, noteId, AddClass(Find(notes, noteId)))
selectNote(notes, sel, noteId) ==
    LET cleared == deselectAllNotes(notes, sel)
    IN Update(cleared, noteId, AddClass(Find(cleared, noteId)))

\* getSelectedNote() # null
HasSelectedNote(notes, sel) == sel # Null /\ sel \in Ids(notes)

(***************************************************************************)
(* Removal.                                                                *)
(***************************************************************************)
\* removeNote(noteId): the store afterwards.
removeNote_NoGuard(notes, noteId) ==
    IF noteId \in Ids(notes)
    THEN SelectSeq(notes, LAMBDA n : n.id # noteId)
    ELSE SubSeq(notes, 1, Len(notes) - 1)
removeNote(notes, noteId) ==
    SelectSeq(notes, LAMBDA n : n.id # noteId)

\* removeNote(noteId): the document's listeners afterwards
\* (note.cleanupHandlers() when the note is found).
removeNoteListeners(listeners, notes, noteId) ==
    IF noteId \in Ids(notes)
    THEN listeners \ Find(notes, noteId).cleanupHandlers
    ELSE listeners

\* removeNote(noteId): selectedNoteId afterwards.
removeNoteSel_Always(notes, sel, noteId) == Null
removeNoteSel(notes, sel, noteId) ==
    IF noteId \in Ids(notes) /\ sel = noteId THEN Null ELSE sel

(***************************************************************************)
(* Creation.                                                               *)
(***************************************************************************)
\* createStickyNoteFromData(data, screenX, screenY): the store afterwards.
\* The note is pushed before overlay.appendChild, which throws when the
\* overlay does not exist yet: the note then stays in the store, detached.
createStickyNoteFromData(notes, ctr, data, screenX, screenY, doc) ==
    Append(notes,
           SetupHandlers(
               MkNote(ctr + 1, data.canvasX, data.canvasY,
                      IF data.width # 0 THEN data.width
                      ELSE Px(DEFAULT_WIDTH),
                      IF data.height # 0 THEN data.height
                      ELSE Px(DEFAULT_HEIGHT),
                      data.text, data.color, data.createdAt,
                      screenX, screenY, overlay, doc)))

\* typeof data.x !== 'number' || typeof data.y !== 'number'
Malformed(data) == ~IsNumber(data.x) \/ ~IsNumber(data.y)

\* The argument deserializeNotes builds for createStickyNoteFromData.
RestoredData_StampNow(data) ==
    [canvasX |-> data.x.v, canvasY |-> data.y.v,
     width |-> OrDefault(data.width, Px(DEFAULT_WIDTH)),
     height |-> OrDefault(data.height, Px(DEFAULT_HEIGHT)),
     text |-> OrDefault(data.text, DEFAULT_TEXT),
     color |-> OrDefault(data.color, DEFAULT_COLOR),
     createdAt |-> now]
RestoredData(data) ==
    [canvasX |-> data.x.v, canvasY |-> data.y.v,
     width |-> OrDefault(data.width, Px(DEFAULT_WIDTH)),
     height |-> OrDefault(data.height, Px(DEFAULT_HEIGHT)),
     text |-> OrDefault(data.text, DEFAULT_TEXT),
     color |-> OrDefault(data.color, DEFAULT_COLOR),
     createdAt |-> OrDefault(data.createdAt, now)]

RECURSIVE DeserializeFrom(_, _, _, _, _)
\* The for-of loop of deserializeNotes from entry i on.  Reading data.x of a
\* null entry throws, and so does createStickyNoteFromData without an
\* overlay: either ends the loop with the exception uncaught.
DeserializeFrom(recs, i, notes, ctr, doc) ==
    IF i > Len(recs) THEN [notes |-> notes, ctr |-> ctr, raised |-> FALSE]
    ELSE LET data == recs[i] IN
         IF data.kind = "null"
         THEN [notes |-> notes, ctr |-> ctr, raised |-> TRUE]
         ELSE IF Malformed(data)
         THEN DeserializeFrom(recs, i + 1, notes, ctr, doc)
         ELSE LET screenPos == canvasToScreen(data.x.v, data.y.v)
                  pushed == createStickyNoteFromData(
                                notes, ctr, RestoredData(data),
                                screenPos.x, screenPos.y, doc)
              IN IF ~overlay
                 THEN [notes |-> pushed, ctr |-> ctr + 1, raised |-> TRUE]
                 ELSE DeserializeFrom(recs, i + 1, pushed, ctr + 1, doc)

\* deserializeNotes(notesData): store, counter and whether it threw.
deserializeNotes(notesData, notes, ctr, doc) ==
    IF ~IsArray(notesData) \/ Len(notesData.v) = 0
    THEN [notes |-> notes, ctr |-> ctr, raised |-> FALSE]
    ELSE DeserializeFrom(notesData.v, 1, notes, ctr, doc)

\* serializeNotes(): the records written into the workflow.
serializeNotes(notes) ==
    [i \in 1..Len(notes) |->
        [id |-> notes[i].id,
         x |-> JNum(notes[i].canvasX), y |-> JNum(notes[i].canvasY),
         width |-> JNum(IF notes[i].width # 0 THEN notes[i].width
                        ELSE Px(DEFAULT_WIDTH)),
         height |-> JNum(IF notes[i].height # 0 THEN notes[i].height
                         ELSE Px(DEFAULT_HEIGHT)),
         text |-> JStr(notes[i].text), color |-> JStr(notes[i].color),
         createdAt |-> JNum(IF notes[i].createdAt # 0 THEN notes[i].createdAt
                            ELSE now),
         kind |-> "object"]]

(***************************************************************************)
(* Editing.                                                                *)
(***************************************************************************)
\* startEditing(noteData): the note afterwards (its content gets focus).
startEditing_ClearText(n) ==
    [n EXCEPT !.isEditing = TRUE, !.buf = n.text, !.text = ""]
startEditing(n) == [n EXCEPT !.isEditing = TRUE, !.buf = n.text]

\* stopEditing(noteData) past its guard: the note afterwards.
stopEditing_KeepText(n) == [n EXCEPT !.isEditing = FALSE]
stopEditing(n) == [n EXCEPT !.isEditing = FALSE, !.text = n.buf]

\* The blur listener of a note's content: setTimeout(..., 100).
BlurTimer(id) == [kind |-> "blur", id |-> id]
RestoreTimer(g) == [kind |-> "restore", data |-> g]

\* stopEditing(noteData) on the note id of the store: store, focus, timers.
\* content.blur() fires the blur listener when the content had focus.
StopEditingIn(notes, id, focus, tq) ==
    IF id \in Ids(notes) /\ Find(notes, id).isEditing
    THEN [notes |-> Update(notes, id, stopEditing(Find(notes, id))),
          focus |-> IF focus = id THEN Null ELSE focus,
          tq |-> IF focus = id THEN Append(tq, BlurTimer(id)) ELSE tq]
    ELSE [notes |-> notes, focus |-> focus, tq |-> tq]

\* isTyping of the global keydown handler.
IsTyping ==
    \/ activeEl = HostInput
    \/ /\ activeEl \in Ids(stickyNotes)
       /\ Find(stickyNotes, activeEl).isEditing

(***************************************************************************)
(* Inputs.                                                                 *)
(***************************************************************************)
NoClip == [kind |-> "none"]
\* lastOp: the handler, its argument and the selection it found.
NoOp == [op |-> "init", id |-> Null, was |-> Null]
Op(name, id) == [op |-> name, id |-> id, was |-> selectedNoteId]
NoProbe == [fn |-> "none"]

\* Host transforms: scales 1/2, 1 and 2 with whole offsets, so that every
\* conversion of the inputs below is exact.
Transform(scale, ox, oy) == [scale |-> scale, ox |-> ox, oy |-> oy]
Identity == Transform(Unit, 0, 0)
Transforms ==
    {Identity, Transform(2 * Unit, 0, 0), Transform(Unit, Px(10), 0),
     Transform(Unit \div 2, Px(-20), Px(10))}

\* Click positions on the canvas, relative to the overlay.
ClickPoints == {<<Px(100), Px(100)>>, <<Px(40), Px(20)>>}

\* canvasEl.getBoundingClientRect(): width and height of the canvas.
CanvasWidth == Px(200)
CanvasHeight == Px(100)

\* Texts a user types into a content region.
Texts == {"", "a"}

\* The extension is registered and setup() has run with the canvas not
\* ready yet: waitForCanvasAndAttach is polling.
Init ==
    /\ stickyNotes = <<>>
    /\ noteIdCounter = 0
    /\ selectedNoteId = Null
    /\ overlay = FALSE
    /\ ds = Identity
    /\ last = Identity
    /\ isTKeyHeld = FALSE
    /\ clipboardNote = NoClip
    /\ timers = <<>>
    /\ activeEl = Null
    /\ now = 1
    /\ raised = FALSE
    /\ lastOp = NoOp
    /\ probe = NoProbe
    /\ docListeners = {}
    /\ attempts = 0
    /\ interval = "active"

(***************************************************************************)
(* Resync and bulk operations.                                             *)
(***************************************************************************)
\* updateAllNotePositions(): every element is placed at
\* (canvas + offset) * scale under the host's current transform.
updateAllNotePositions(notes) ==
    [i \in 1..Len(notes) |->
        [notes[i] EXCEPT
            !.left = ToScreenAxis(notes[i].canvasX, ds.scale, ds.ox),
            !.top = ToScreenAxis(notes[i].canvasY, ds.scale, ds.oy)]]

\* The body of checkTransform: the store and the last-observed transform.
CheckTransform_TrackEmpty(notes, seen) ==
    IF ds # seen
    THEN [notes |-> updateAllNotePositions(notes), last |-> ds]
    ELSE [notes |-> notes, last |-> seen]
CheckTransform(notes, seen) ==
    IF Len(notes) > 0 /\ ds # seen
    THEN [notes |-> updateAllNotePositions(notes), last |-> ds]
    ELSE [notes |-> notes, last |-> seen]

\* clearAllNotes(): the store afterwards.
clearAllNotes(notes) == <<>>

\* clearAllNotes(): the document's listeners afterwards (every note's
\* cleanupHandlers() is called).
clearAllNotesListeners(listeners, notes) ==
    listeners \ UNION {notes[i].cleanupHandlers : i \in 1..Len(notes)}

\* clearAllNotes(): selectedNoteId afterwards.
clearAllNotesSel_Keep(sel) == sel
clearAllNotesSel(sel) == Null

\* Focus after elements left the document: a removed content loses it.
FocusAfterRemoval(notes) ==
    IF activeEl > Null /\ activeEl \notin Ids(notes) THEN Null ELSE activeEl

(***************************************************************************)
(* Initialization and the host.                                            *)
(***************************************************************************)
\* maxAttempts of waitForCanvasAndAttach.
maxAttempts == 300

\* One run of the interval callback of waitForCanvasAndAttach, with ready
\* the result of checkCanvas(): the attempt is counted, and the interval is
\* cleared when the canvas was attached or the budget is used up.
IntervalCallback_KeepPolling(count, ready) ==
    [attempts |-> count + 1, interval |-> "active"]
IntervalCallback(count, ready) ==
    [attempts |-> count + 1,
     interval |-> IF ready \/ count + 1 >= maxAttempts
                  THEN "cleared" ELSE "active"]

\* The interval callback with checkCanvas() succeeding: the overlay is
\* created, the keyboard, click and tracking listeners are installed and
\* checkTransform runs a first time.
AttachOverlay ==
    /\ interval = "active"
    /\ overlay' = TRUE
    /\ LET c == CheckTransform(stickyNotes, last)
       IN stickyNotes' = c.notes /\ last' = c.last
    /\ LET r == IntervalCallback(attempts, TRUE)
       IN attempts' = r.attempts /\ interval' = r.interval
    /\ raised' = FALSE
    /\ lastOp' = Op("attach", Null)
    /\ UNCHANGED <<noteIdCounter, selectedNoteId, ds, isTKeyHeld,
                   clipboardNote, timers, activeEl, now, probe>>
    /\ UNCHANGED docListeners

\* The interval callback with checkCanvas() returning false (the canvas is
\* not there yet, or the lookup threw and the catch returned false).
CheckCanvasFails ==
    /\ interval = "active"
    /\ LET r == IntervalCallback(attempts, FALSE)
       IN attempts' = r.attempts /\ interval' = r.interval
    /\ raised' = FALSE
    /\ lastOp' = Op("checkCanvas", Null)
    /\ UNCHANGED <<stickyNotes, noteIdCounter, selectedNoteId, overlay, ds,
                   last, isTKeyHeld, clipboardNote, timers, activeEl, now,
                   probe, docListeners>>

\* waitForCanvasAndAttach() called by setup(): it returns when the overlay
\* exists; the first checkCanvas() attaches at once when the canvas is
\* ready, and the interval is started otherwise.
waitForCanvasAndAttach(ready) ==
    /\ interval = "unset"
    /\ ~overlay
    /\ IF ready
       THEN /\ overlay' = TRUE
            /\ LET c == CheckTransform(stickyNotes, last)
               IN stickyNotes' = c.notes /\ last' = c.last
            /\ UNCHANGED <<attempts, interval>>
       ELSE /\ interval' = "active"
            /\ attempts' = 0
            /\ UNCHANGED <<stickyNotes, last, overlay>>
    /\ raised' = FALSE
    /\ lastOp' = Op("setup", Null)
    /\ UNCHANGED <<noteIdCounter, selectedNoteId, ds, isTKeyHeld,
                   clipboardNote, timers, activeEl, now, probe, docListeners>>

\* The host pans or zooms the canvas.
HostSetTransform(t) ==
    /\ t # ds
    /\ ds' = t
    /\ raised' = FALSE
    /\ lastOp' = Op("transform", Null)
    /\ UNCHANGED <<stickyNotes, noteIdCounter, selectedNoteId, overlay, last,
                   isTKeyHeld, clipboardNote, timers, activeEl, now, probe>>
    /\ UNCHANGED <<docListeners, attempts, interval>>

\* One animation frame: checkTransform.
Tick ==
    /\ overlay
    /\ LET c == CheckTransform(stickyNotes, last)
       IN stickyNotes' = c.notes /\ last' = c.last
    /\ raised' = FALSE
    /\ lastOp' = Op("tick", Null)
    /\ UNCHANGED <<noteIdCounter, selectedNoteId, overlay, ds, isTKeyHeld,
                   clipboardNote, timers, activeEl, now, probe>>
    /\ UNCHANGED <<docListeners, attempts, interval>>

\* app.loadGraphData(graphData): clearAllNotes, the host's own load (which
\* leaves the view at transform t), then the restore deferred by 100 ms.
LoadGraphData(g, t) ==
    /\ Len(timers) < MaxTimers
    /\ stickyNotes' = clearAllNotes(stickyNotes)
    /\ selectedNoteId' = clearAllNotesSel(selectedNoteId)
    /\ ds' = t
    /\ timers' = Append(timers, RestoreTimer(g))
    /\ activeEl' = FocusAfterRemoval(clearAllNotes(stickyNotes))
    /\ raised' = FALSE
    /\ lastOp' = Op("load", g.doc)
    /\ docListeners' = clearAllNotesListeners(docListeners, stickyNotes)
    /\ UNCHANGED <<noteIdCounter, overlay, last, isTKeyHeld, clipboardNote,
                   now, probe,
                   attempts, interval>>

\* Records of notesData that pass the validation, up to the first throw.
RECURSIVE Restorable(_, _)
Restorable(recs, i) ==
    IF i > Len(recs) \/ recs[i].kind = "null" THEN 0
    ELSE IF Malformed(recs[i]) THEN Restorable(recs, i + 1)
    ELSE 1 + (IF overlay THEN Restorable(recs, i + 1) ELSE 0)

\* The oldest pending timer fires (all delays are 100 ms: firing order is
\* scheduling order).
TimerFires ==
    /\ Len(timers) > 0
    /\ LET tm == Head(timers) IN
       IF tm.kind = "restore"
       THEN /\ noteIdCounter + Restorable(tm.data.recs, 1) <= MaxId
            /\ LET r == IF tm.data.hasNotes
                        THEN deserializeNotes(tm.data.value, stickyNotes,
                                              noteIdCounter, tm.data.doc)
                        ELSE [notes |-> stickyNotes, ctr |-> noteIdCounter,
                              raised |-> FALSE]
               IN /\ stickyNotes' = r.notes
                  /\ noteIdCounter' = r.ctr
                  /\ raised' = r.raised
            /\ timers' = Tail(timers)
            /\ activeEl' = activeEl
            /\ lastOp' = Op("restore", tm.data.doc)
       ELSE /\ LET r == StopEditingIn(stickyNotes, tm.id, activeEl,
                                      Tail(timers))
               IN /\ stickyNotes' = r.notes
                  /\ activeEl' = r.focus
                  /\ timers' = r.tq
            /\ noteIdCounter' = noteIdCounter
            /\ raised' = FALSE
            /\ lastOp' = Op("blurTimeout", tm.id)
    /\ docListeners' = docListeners \cup Registered(stickyNotes, stickyNotes')
    /\ UNCHANGED <<selectedNoteId, overlay, ds, last, isTKeyHeld,
                   clipboardNote, now, probe,
                   attempts, interval>>

(***************************************************************************)
(* Pointer input on a note.  A note takes pointer input only while its     *)
(* element is in the overlay.                                              *)
(***************************************************************************)
Live(id) == id \in Ids(stickyNotes) /\ Find(stickyNotes, id).attached

\* The browser moves focus to `to`: a content region that loses it gets a
\* blur event, whose listener defers a commit.
MoveFocus(to, tq) ==
    [focus |-> to,
     tq |-> IF activeEl > Null /\ activeEl # to /\ activeEl \in Ids(stickyNotes)
            THEN Append(tq, BlurTimer(activeEl)) ELSE tq]

\* mousedown on a note outside its header and resize handle (onContent: in
\* the content region).  The listener selects the note; the default action
\* leaves focus in an editable content and takes it to the body otherwise.
NoteMouseDown(id, onContent) ==
    /\ Live(id)
    /\ LET n == Find(stickyNotes, id)
           f == MoveFocus(IF onContent /\ n.isEditing THEN id ELSE Null, timers)
       IN /\ Len(f.tq) <= MaxTimers
          /\ stickyNotes' = selectNote(stickyNotes, selectedNoteId, id)
          /\ selectedNoteId' = id
          /\ activeEl' = f.focus
          /\ timers' = f.tq
    /\ raised' = FALSE
    /\ lastOp' = Op("noteMouseDown", id)
    /\ UNCHANGED <<noteIdCounter, overlay, ds, last, isTKeyHeld,
                   clipboardNote, now, probe>>
    /\ UNCHANGED <<docListeners, attempts, interval>>

\* mousedown on the header (not on a button or the colour picker): the drag
\* starts and the note is selected.  preventDefault keeps the focus.
StartDrag(n, p) ==
    [n EXCEPT !.isDragging = TRUE, !.dragStartX = p[1], !.dragStartY = p[2],
              !.initialLeft = OffsetLeft(n), !.initialTop = OffsetTop(n)]

HeaderMouseDown(id, p) ==
    /\ Live(id)
    /\ stickyNotes' = selectNote(
           Update(stickyNotes, id, StartDrag(Find(stickyNotes, id), p)),
           selectedNoteId, id)
    /\ selectedNoteId' = id
    /\ raised' = FALSE
    /\ lastOp' = Op("headerMouseDown", id)
    /\ UNCHANGED <<noteIdCounter, overlay, ds, last, isTKeyHeld,
                   clipboardNote, timers, activeEl, now, probe>>
    /\ UNCHANGED <<docListeners, attempts, interval>>

\* mousedown on the resize handle: stopPropagation keeps it from the note's
\* own mousedown listener, so the selection is left alone.
StartResize(n, p) ==
    [n EXCEPT !.isResizing = TRUE, !.resizeStartX = p[1],
              !.resizeStartY = p[2],
              !.startWidth = n.width, !.startHeight = n.height]

ResizeMouseDown(id, p) ==
    /\ Live(id)
    /\ stickyNotes' = Update(stickyNotes, id,
                             StartResize(Find(stickyNotes, id), p))
    /\ raised' = FALSE
    /\ lastOp' = Op("resizeMouseDown", id)
    /\ UNCHANGED <<noteIdCounter, selectedNoteId, overlay, ds, last,
                   isTKeyHeld, clipboardNote, timers, activeEl, now, probe>>
    /\ UNCHANGED <<docListeners, attempts, interval>>

\* The drag closure's onMouseMove: the element follows the pointer.
DragMove(n, p) ==
    IF ~n.isDragging THEN n
    ELSE [n EXCEPT !.left = FAdd(n.initialLeft, FSub(p[1], n.dragStartX)),
                   !.top = FAdd(n.initialTop, FSub(p[2], n.dragStartY))]

\* The resize closure's onMouseMove.
ResizeMove(n, p) ==
    IF ~n.isResizing THEN n
    ELSE [n EXCEPT
            !.width = Max(Px(MIN_WIDTH),
                          FAdd(n.startWidth,
                               FDiv(FSub(p[1], n.resizeStartX), ds.scale))),
            !.height = Max(Px(MIN_HEIGHT),
                           FAdd(n.startHeight,
                                FDiv(FSub(p[2], n.resizeStartY), ds.scale)))]

\* The drag closure's onMouseUp: the world position is recomputed from the
\* element's laid-out position.
DragUp(n) ==
    IF ~n.isDragging THEN n
    ELSE LET c == screenToCanvas(OffsetLeft(n), OffsetTop(n))
         IN [n EXCEPT !.isDragging = FALSE, !.canvasX = c.x, !.canvasY = c.y,
                      !.dragStartX = 0, !.dragStartY = 0,
                      !.initialLeft = 0, !.initialTop = 0]

\* The resize closure's onMouseUp.
ResizeUp(n) ==
    IF ~n.isResizing THEN n
    ELSE [n EXCEPT !.isResizing = FALSE,
                   !.resizeStartX = 0, !.resizeStartY = 0,
                   !.startWidth = 0, !.startHeight = 0]

\* mousemove on the document: every note's two listeners run (each returns
\* at once unless its gesture is in progress).
DocMouseMove(p) ==
    /\ \E i \in 1..Len(stickyNotes) :
          stickyNotes[i].isDragging \/ stickyNotes[i].isResizing
    /\ stickyNotes' = [i \in 1..Len(stickyNotes) |->
                          ResizeMove(DragMove(stickyNotes[i], p), p)]
    /\ raised' = FALSE
    /\ lastOp' = Op("mouseMove", Null)
    /\ UNCHANGED <<noteIdCounter, selectedNoteId, overlay, ds, last,
                   isTKeyHeld, clipboardNote, timers, activeEl, now, probe>>
    /\ UNCHANGED <<docListeners, attempts, interval>>

\* mouseup on the document: every note's two listeners run.
DocMouseUp ==
    /\ \E i \in 1..Len(stickyNotes) :
          stickyNotes[i].isDragging \/ stickyNotes[i].isResizing
    /\ stickyNotes' = [i \in 1..Len(stickyNotes) |->
                          ResizeUp(DragUp(stickyNotes[i]))]
    /\ raised' = FALSE
    /\ lastOp' = Op("mouseUp", Null)
    /\ UNCHANGED <<noteIdCounter, selectedNoteId, overlay, ds, last,
                   isTKeyHeld, clipboardNote, timers, activeEl, now, probe>>
    /\ UNCHANGED <<docListeners, attempts, interval>>

\* click on a note's close button: removeNote(noteId).  The press takes the
\* focus to the button.  The listener stays bound to the button of a note
\* already removed; a click delivered there finds the id absent.
CloseClick(id) ==
    /\ id \in 1..noteIdCounter
    /\ id \in Ids(stickyNotes) => Find(stickyNotes, id).attached
    /\ LET f == IF id \in Ids(stickyNotes) THEN MoveFocus(Null, timers)
                ELSE [focus |-> activeEl, tq |-> timers]
       IN /\ Len(f.tq) <= MaxTimers
          /\ activeEl' = f.focus
          /\ timers' = f.tq
    /\ stickyNotes' = removeNote(stickyNotes, id)
    /\ selectedNoteId' = removeNoteSel(stickyNotes, selectedNoteId, id)
    /\ raised' = FALSE
    /\ lastOp' = Op("removeNote", id)
    /\ docListeners' = removeNoteListeners(docListeners, stickyNotes, id)
    /\ UNCHANGED <<noteIdCounter, overlay, ds, last, isTKeyHeld,
                   clipboardNote, now, probe,
                   attempts, interval>>

\* dblclick on a note's content: startEditing(noteData).
DblClickContent(id) ==
    /\ Live(id)
    /\ LET f == MoveFocus(id, timers)
       IN /\ Len(f.tq) <= MaxTimers
          /\ activeEl' = f.focus
          /\ timers' = f.tq
    /\ stickyNotes' = Update(stickyNotes, id,
                             startEditing(Find(stickyNotes, id)))
    /\ raised' = FALSE
    /\ lastOp' = Op("startEditing", id)
    /\ UNCHANGED <<noteIdCounter, selectedNoteId, overlay, ds, last,
                   isTKeyHeld, clipboardNote, now, probe>>
    /\ UNCHANGED <<docListeners, attempts, interval>>

\* The user replaces the text of the content region that has focus.
UserTypes(txt) ==
    /\ activeEl \in Ids(stickyNotes)
    /\ Find(stickyNotes, activeEl).isEditing
    /\ Find(stickyNotes, activeEl).buf # txt
    /\ stickyNotes' = Update(stickyNotes, activeEl,
                [Find(stickyNotes, activeEl) EXCEPT !.buf = txt])
    /\ raised' = FALSE
    /\ lastOp' = Op("type", activeEl)
    /\ UNCHANGED <<noteIdCounter, selectedNoteId, overlay, ds, last,
                   isTKeyHeld, clipboardNote, timers, activeEl, now, probe>>
    /\ UNCHANGED <<docListeners, attempts, interval>>

\* mousedown on the overlay itself: deselectAllNotes().
OverlayMouseDown ==
    /\ overlay
    /\ LET f == MoveFocus(Null, timers)
       IN /\ Len(f.tq) <= MaxTimers
          /\ activeEl' = f.focus
          /\ timers' = f.tq
    /\ stickyNotes' = deselectAllNotes(stickyNotes, selectedNoteId)
    /\ selectedNoteId' = Null
    /\ raised' = FALSE
    /\ lastOp' = Op("deselect", Null)
    /\ UNCHANGED <<noteIdCounter, overlay, ds, last, isTKeyHeld,
                   clipboardNote, now, probe>>
    /\ UNCHANGED <<docListeners, attempts, interval>>

(***************************************************************************)
(* Creation by the user.                                                   *)
(***************************************************************************)
\* createStickyNote(screenX, screenY): the store before selectNote.
createStickyNote_AtScreen(notes, ctr, screenX, screenY) ==
    Append(notes,
           SetupHandlers(
               MkNote(ctr + 1, screenX, screenY,
                      Px(DEFAULT_WIDTH), Px(DEFAULT_HEIGHT),
                      DEFAULT_TEXT, DEFAULT_COLOR, now,
                      screenX, screenY, TRUE, 0)))
createStickyNote_ReuseId(notes, ctr, screenX, screenY) ==
    LET canvasPos == screenToCanvas(screenX, screenY)
    IN Append(notes,
              SetupHandlers(
                  MkNote(Len(notes) + 1, canvasPos.x, canvasPos.y,
                         Px(DEFAULT_WIDTH), Px(DEFAULT_HEIGHT),
                         DEFAULT_TEXT, DEFAULT_COLOR, now,
                         screenX, screenY, TRUE, 0)))
createStickyNote(notes, ctr, screenX, screenY) ==
    LET canvasPos == screenToCanvas(screenX, screenY)
    IN Append(notes,
              SetupHandlers(
                  MkNote(ctr + 1, canvasPos.x, canvasPos.y,
                         Px(DEFAULT_WIDTH), Px(DEFAULT_HEIGHT),
                         DEFAULT_TEXT, DEFAULT_COLOR, now,
                         screenX, screenY, TRUE, 0)))

\* copySelectedNote(): the clipboard afterwards.
copySelectedNote(notes, sel, clip) ==
    IF ~HasSelectedNote(notes, sel) THEN clip
    ELSE LET note == Find(notes, sel)
         IN [kind |-> "note", width |-> note.width, height |-> note.height,
             text |-> note.text, color |-> note.color]

\* pasteNote(): the store before selectNote.  The note is placed at the
\* centre of the canvas.
pasteNote_AtScreenCentre(notes, ctr, clip) ==
    LET canvasX == FDiv(CanvasWidth, 2 * Unit)
        canvasY == FDiv(CanvasHeight, 2 * Unit)
    IN Append(notes,
              SetupHandlers(
                  MkNote(ctr + 1, canvasX, canvasY, clip.width, clip.height,
                         clip.text, clip.color, now, canvasX, canvasY,
                         TRUE, 0)))
pasteNote(notes, ctr, clip) ==
    LET canvasX == ToCanvasAxis(FDiv(CanvasWidth, 2 * Unit), ds.scale, ds.ox)
        canvasY == ToCanvasAxis(FDiv(CanvasHeight, 2 * Unit), ds.scale, ds.oy)
        screenPos == canvasToScreen(canvasX, canvasY)
    IN Append(notes,
              SetupHandlers(
                  MkNote(ctr + 1, canvasX, canvasY, clip.width, clip.height,
                         clip.text, clip.color, now,
                         screenPos.x, screenPos.y, TRUE, 0)))

\* duplicateSelectedNote() with a note selected: the store before selectNote.
duplicateSelectedNote_NoOffset(notes, ctr, sel) ==
    LET note == Find(notes, sel)
        screenPos == canvasToScreen(note.canvasX, note.canvasY)
    IN Append(notes,
              SetupHandlers(
                  MkNote(ctr + 1, note.canvasX, note.canvasY, note.width,
                         note.height, note.text, note.color, now,
                         screenPos.x, screenPos.y, TRUE, 0)))
duplicateSelectedNote(notes, ctr, sel) ==
    LET note == Find(notes, sel)
        canvasX == FAdd(note.canvasX, Px(DUPLICATE_OFFSET))
        canvasY == FAdd(note.canvasY, Px(DUPLICATE_OFFSET))
        screenPos == canvasToScreen(canvasX, canvasY)
    IN Append(notes,
              SetupHandlers(
                  MkNote(ctr + 1, canvasX, canvasY, note.width, note.height,
                         note.text, note.color, now,
                         screenPos.x, screenPos.y, TRUE, 0)))

\* click on the canvas: with the T key held, createStickyNote at the click
\* position; the new note is selected.  The press takes the focus away from
\* a content region.
CanvasClick(p) ==
    /\ overlay
    /\ isTKeyHeld => noteIdCounter < MaxId
    /\ LET f == MoveFocus(Null, timers)
       IN /\ Len(f.tq) <= MaxTimers
          /\ activeEl' = f.focus
          /\ timers' = f.tq
    /\ IF isTKeyHeld
       THEN /\ stickyNotes' = selectNote(
                   createStickyNote(stickyNotes, noteIdCounter, p[1], p[2]),
                   selectedNoteId, noteIdCounter + 1)
            /\ selectedNoteId' = noteIdCounter + 1
            /\ noteIdCounter' = noteIdCounter + 1
            /\ lastOp' = Op("createStickyNote", noteIdCounter + 1)
       ELSE /\ UNCHANGED <<stickyNotes, selectedNoteId, noteIdCounter>>
            /\ lastOp' = Op("canvasClick", Null)
    /\ raised' = FALSE
    /\ docListeners' = docListeners \cup Registered(stickyNotes, stickyNotes')
    /\ UNCHANGED <<overlay, ds, last, isTKeyHeld, clipboardNote, now, probe,
                   attempts, interval>>

(***************************************************************************)
(* Keyboard.                                                               *)
(***************************************************************************)
\* A key press: key, whether Ctrl or Cmd is held, whether Shift is held.
Key(k, ctrl, shift) == [key |-> k, ctrl |-> ctrl, shift |-> shift]
ShortcutKeys ==
    {Key("t", FALSE, FALSE), Key("c", TRUE, FALSE), Key("v", TRUE, FALSE),
     Key("d", TRUE, FALSE), Key("Delete", FALSE, FALSE),
     Key("Escape", FALSE, FALSE)}
EditKeys == {Key("Enter", FALSE, FALSE), Key("Enter", FALSE, TRUE)}

\* What globalKeyDownHandler does with the key, as the name of its branch.
KeyBranch(e) ==
    CASE e.key = "t" /\ ~IsTyping -> "T"
      [] e.ctrl /\ e.key = "c" /\ ~IsTyping /\ selectedNoteId # Null -> "copy"
      [] e.ctrl /\ e.key = "v" /\ ~IsTyping /\ clipboardNote # NoClip -> "paste"
      [] e.ctrl /\ e.key = "d" /\ ~IsTyping /\ selectedNoteId # Null
           -> IF HasSelectedNote(stickyNotes, selectedNoteId)
              THEN "duplicate" ELSE "none"
      [] e.key = "Delete" /\ ~IsTyping /\ selectedNoteId # Null -> "delete"
      [] e.key = "Escape"
           -> IF HasSelectedNote(stickyNotes, selectedNoteId)
                 /\ Find(stickyNotes, selectedNoteId).isEditing
              THEN "stopEditing" ELSE "deselect"
      [] OTHER -> "none"

\* keydown: globalKeyDownHandler (document, capture phase), then, when the
\* key goes to a content region and the handler did not stop it, that
\* region's keydown listener (Enter without Shift and Escape commit).
KeyDown(e) ==
    /\ overlay
    /\ LET b == KeyBranch(e)
           creates == b \in {"paste", "duplicate"}
           \* after globalKeyDownHandler
           notes1 ==
               CASE b = "paste" ->
                      selectNote(pasteNote(stickyNotes, noteIdCounter,
                                           clipboardNote),
                                 selectedNoteId, noteIdCounter + 1)
                 [] b = "duplicate" ->
                      selectNote(duplicateSelectedNote(stickyNotes,
                                     noteIdCounter, selectedNoteId),
                                 selectedNoteId, noteIdCounter + 1)
                 [] b = "delete" -> removeNote(stickyNotes, selectedNoteId)
                 [] b = "deselect" ->
                      deselectAllNotes(stickyNotes, selectedNoteId)
                 [] OTHER -> stickyNotes
           sel1 ==
               CASE creates -> noteIdCounter + 1
                 [] b = "delete" ->
                      removeNoteSel(stickyNotes, selectedNoteId,
                                    selectedNoteId)
                 [] b = "deselect" -> Null
                 [] OTHER -> selectedNoteId
           ed1 == IF b = "stopEditing"
                  THEN StopEditingIn(notes1, selectedNoteId, activeEl, timers)
                  ELSE [notes |-> notes1, focus |-> activeEl, tq |-> timers]
           \* the content region's own keydown listener
           toContent == activeEl \in Ids(stickyNotes)
                        /\ b \notin {"copy", "paste", "duplicate", "delete"}
           commits == toContent
                      /\ \/ e.key = "Enter" /\ ~e.shift
                         \/ e.key = "Escape"
           ed2 == IF commits
                  THEN StopEditingIn(ed1.notes, activeEl, ed1.focus, ed1.tq)
                  ELSE ed1
       IN /\ creates => noteIdCounter < MaxId
          /\ Len(ed2.tq) <= MaxTimers
          /\ stickyNotes' = ed2.notes
          /\ selectedNoteId' = sel1
          /\ noteIdCounter' = IF creates THEN noteIdCounter + 1
                              ELSE noteIdCounter
          /\ clipboardNote' = IF b = "copy"
                              THEN copySelectedNote(stickyNotes,
                                       selectedNoteId, clipboardNote)
                              ELSE clipboardNote
          /\ isTKeyHeld' = IF b = "T" THEN TRUE ELSE isTKeyHeld
          /\ activeEl' = ed2.focus
          /\ timers' = ed2.tq
          /\ lastOp' = Op(IF commits /\ b = "none" THEN "commit" ELSE b,
                          IF creates THEN noteIdCounter + 1
                          ELSE IF b = "delete" THEN selectedNoteId
                          ELSE IF commits THEN activeEl ELSE Null)
    /\ raised' = FALSE
    /\ docListeners' =
          (IF KeyBranch(e) = "delete"
           THEN removeNoteListeners(docListeners, stickyNotes,
                                    selectedNoteId)
           ELSE docListeners) \cup Registered(stickyNotes, stickyNotes')
    /\ UNCHANGED <<overlay, ds, last, now, probe,
                   attempts, interval>>

\* keyup of the T key, or the window losing focus: the flag is reset.
KeyUpT ==
    /\ overlay
    /\ isTKeyHeld
    /\ isTKeyHeld' = FALSE
    /\ raised' = FALSE
    /\ lastOp' = Op("keyUpT", Null)
    /\ UNCHANGED <<stickyNotes, noteIdCounter, selectedNoteId, overlay, ds,
                   last, clipboardNote, timers, activeEl, now, probe>>
    /\ UNCHANGED <<docListeners, attempts, interval>>

\* Time passes.
ClockAdvance ==
    /\ now < MaxTime
    /\ now' = now + 1
    /\ raised' = FALSE
    /\ lastOp' = Op("clock", Null)
    /\ UNCHANGED <<stickyNotes, noteIdCounter, selectedNoteId, overlay, ds,
                   last, isTKeyHeld, clipboardNote, timers, activeEl, probe>>
    /\ UNCHANGED <<docListeners, attempts, interval>>

(***************************************************************************)
(* Workflow documents handed to app.loadGraphData.  doc numbers them;      *)
(* hasExtra says whether graphData.extra is there, value is what           *)
(* graphData.extra.stickyNotes holds (undefined when the key is absent),   *)
(* hasNotes is the truthiness of graphData?.extra?.[EXTENSION_KEY] and     *)
(* recs the entries of an array value.                                     *)
(***************************************************************************)
GraphValue(doc, hasExtra, value) ==
    [doc |-> doc, hasExtra |-> hasExtra, value |-> value,
     hasNotes |-> hasExtra /\ Truthy(value),
     recs |-> IF IsArray(value) THEN value.v ELSE <<>>]

\* A document with an extra section: with the array recs under the key, or
\* without the key.
GraphData(doc, hasNotes, recs) ==
    GraphValue(doc, TRUE, IF hasNotes THEN JArr(recs) ELSE JUndef)

\* One well-formed record with every optional field missing.
PlainRec == Rec(JNum(Px(100)), JNum(Px(100)), JUndef, JUndef, JUndef, JUndef,
                JUndef)
\* A record whose saved size is below the minimum dimensions.
SmallRec == Rec(JNum(Px(10)), JNum(Px(20)), JNum(Px(50)), JNum(Px(40)),
                JStr("a"), JStr("pink"), JNum(1))
\* A record whose x is a string.
BadXRec == Rec(JStr("12"), JNum(Px(20)), JUndef, JUndef, JUndef, JUndef,
               JUndef)

DocPlain == GraphData(1, TRUE, <<PlainRec>>)
DocSmall == GraphData(2, TRUE, <<SmallRec>>)
DocBadX == GraphData(3, TRUE, <<BadXRec, PlainRec>>)
DocNull == GraphData(4, TRUE, <<NullRec, PlainRec>>)
DocNoNotes == GraphData(5, FALSE, <<>>)

\* Where the pointer is pressed on a handle, and where it moves to.
PressPoint == <<Px(50), Px(50)>>
MovePoints == {<<Px(70), Px(50)>>, <<Px(-150), Px(-50)>>}

(***************************************************************************)
(* Spec: selection and the note lifecycle under a fixed transform, with    *)
(* every handler that selects, deselects, creates, removes or clears.      *)
(* Editing is left out here: it only suppresses shortcuts (isTyping) or    *)
(* turns Escape's deselect into a commit.                                  *)
(***************************************************************************)
Next ==
    \/ AttachOverlay
    \/ CanvasClick(PressPoint)
    \/ \E e \in ShortcutKeys : KeyDown(e)
    \/ KeyUpT
    \/ \E id \in 1..MaxId : NoteMouseDown(id, TRUE)
    \/ \E id \in 1..MaxId : HeaderMouseDown(id, PressPoint)
    \/ DocMouseUp
    \/ OverlayMouseDown
    \/ \E id \in 1..MaxId : CloseClick(id)
    \/ LoadGraphData(DocPlain, ds)
    \/ TimerFires

Spec == Init /\ [][Next]_vars

\* The handlers that end in selectNote(id).
SelectOps ==
    {"noteMouseDown", "headerMouseDown", "createStickyNote", "paste",
     "duplicate"}
\* The handlers that call removeNote(id).
RemoveOps == {"removeNote", "delete"}

\* C1: at most one note is selected.  Every element that carries the
\* 'selected' class belongs to the note selectedNoteId names, and after a
\* handler that ends in selectNote(B), selectedNoteId is B and B's element
\* carries the class.
C1_SingleSelection ==
    /\ \A i \in 1..Len(stickyNotes) :
          stickyNotes[i].selected => stickyNotes[i].id = selectedNoteId
    /\ lastOp.op \in SelectOps =>
          /\ selectedNoteId = lastOp.id
          /\ Find(stickyNotes, lastOp.id).selected

\* C1 witness: B was selected by a pointer press while another live note A
\* was the selection.
C1_Witness ==
    /\ lastOp.op = "noteMouseDown"
    /\ lastOp.was # Null /\ lastOp.was # lastOp.id
    /\ lastOp.was \in Ids(stickyNotes)
    /\ selectedNoteId = lastOp.id

\* C2: removeNote(id) sets the selection to none when id is the selected
\* note and leaves selectedNoteId unchanged otherwise (another live note, or
\* an id absent from the store).
C2_RemoveSelection ==
    [][lastOp'.op \in RemoveOps =>
          IF selectedNoteId = lastOp'.id
          THEN selectedNoteId' = Null
          ELSE selectedNoteId' = selectedNoteId]_vars

\* C2 witness: the close button removed the selected note while another
\* note stayed in the store.
C2_Witness ==
    /\ lastOp.op = "removeNote"
    /\ lastOp.was = lastOp.id
    /\ selectedNoteId = Null
    /\ Len(stickyNotes) > 0

\* C3: selectedNoteId is null or the id of a note in the store.
C3_SelectionLive ==
    selectedNoteId = Null \/ selectedNoteId \in Ids(stickyNotes)

\* C3 witness: a document load cleared the store while a note was selected.
C3_Witness ==
    /\ lastOp.op = "load"
    /\ lastOp.was # Null
    /\ selectedNoteId = Null

(***************************************************************************)
(* SpecResize: resize gestures under a changing scale, on notes created by *)
(* T+click, paste, duplicate and by restoring saved records.               *)
(***************************************************************************)
ResizeScales == {Identity, Transform(2 * Unit, 0, 0),
                 Transform(Unit \div 2, 0, 0)}

WithinSizeCap(notes) ==
    \A i \in 1..Len(notes) :
        notes[i].width <= Px(MaxSize) /\ notes[i].height <= Px(MaxSize)

\* One pointer: a button is pressed only after the previous one was released.
NoGesture ==
    \A i \in 1..Len(stickyNotes) :
        ~stickyNotes[i].isResizing /\ ~stickyNotes[i].isDragging

NextResize ==
    \/ AttachOverlay
    \/ \E t \in ResizeScales : HostSetTransform(t)
    \/ \E id \in 1..MaxId : NoGesture /\ ResizeMouseDown(id, PressPoint)
    \/ \E p \in MovePoints : DocMouseMove(p) /\ WithinSizeCap(stickyNotes')
    \/ DocMouseUp
    \/ \E g \in {DocPlain, DocSmall} : LoadGraphData(g, ds)
    \/ TimerFires

SpecResize == Init /\ [][NextResize]_vars

\* The minimum dimensions hold of note n.
AtLeastMinimum(n) ==
    n.width >= Px(MIN_WIDTH) /\ n.height >= Px(MIN_HEIGHT)

\* C4: when a resize gesture ends (press on the handle, any number of
\* moves, release), the note's stored width is at least MIN_WIDTH and its
\* stored height at least MIN_HEIGHT.
C4_ResizeKeepsMinimum ==
    [][lastOp'.op = "mouseUp" =>
          \A i \in 1..Len(stickyNotes) :
              stickyNotes[i].isResizing => AtLeastMinimum(stickyNotes'[i])]_vars

\* The clamp of the resize closure's onMouseMove: once a move has been
\* applied to a note that is being resized, its stored size is at least the
\* minimum.
ResizeMoveClamps ==
    [][lastOp'.op = "mouseMove" =>
          \A i \in 1..Len(stickyNotes) :
              stickyNotes[i].isResizing => AtLeastMinimum(stickyNotes'[i])]_vars

(***************************************************************************)
(* SpecEntry: every way a note enters the store: T+click, paste,           *)
(* duplicate, and the deferred restore of a loaded document.               *)
(***************************************************************************)
NextEntry ==
    \/ AttachOverlay
    \/ CanvasClick(PressPoint)
    \/ \E e \in ShortcutKeys \ {Key("Escape", FALSE, FALSE)} : KeyDown(e)
    \/ KeyUpT
    \/ \E id \in 1..MaxId : NoteMouseDown(id, TRUE)
    \/ \E g \in {DocPlain, DocSmall} : LoadGraphData(g, ds)
    \/ TimerFires

SpecEntry == Init /\ [][NextEntry]_vars

\* C5: every note in the store has width >= MIN_WIDTH and height >=
\* MIN_HEIGHT, however it entered the store.
C5_SizeInvariant ==
    \A i \in 1..Len(stickyNotes) : AtLeastMinimum(stickyNotes[i])

(***************************************************************************)
(* SpecCoord: the two conversions as pure functions of the host transform. *)
(* The scales include 3/4 and 5/4, whose products and quotients round.     *)
(***************************************************************************)
CoordScales == {Unit, 2 * Unit, Unit \div 2, (3 * Unit) \div 4,
                (5 * Unit) \div 4}
CoordOffsets == {0, Px(10), Px(-7)}
CoordTransforms ==
    {Transform(sc, ox, oy) : sc \in CoordScales, ox \in CoordOffsets,
                              oy \in {0, Px(10)}}
CoordPoints ==
    {v \in {Px(53), Px(3), Px(-20), Px(100), 0} : Representable(v)}

\* screenToCanvas(canvasToScreen(x, y)) under the current transform.
RoundTrip(x, y) ==
    LET s == canvasToScreen(x, y)
        r == screenToCanvas(s.x, s.y)
    IN /\ probe' = [fn |-> "roundTrip", x |-> x, y |-> y, sx |-> s.x,
                    sy |-> s.y, rx |-> r.x, ry |-> r.y, ds |-> ds]
       /\ lastOp' = Op("roundTrip", Null)
       /\ raised' = FALSE
       /\ UNCHANGED <<stickyNotes, noteIdCounter, selectedNoteId, overlay,
                      ds, last, isTKeyHeld, clipboardNote, timers, activeEl,
                      now, docListeners,
                   attempts, interval>>

NextCoord ==
    \/ \E t \in CoordTransforms : HostSetTransform(t)
    \/ \E x \in CoordPoints, y \in {Px(3), Px(100)} : RoundTrip(x, y)

SpecCoord == Init /\ [][NextCoord]_vars

\* The product or the quotient of one axis's round trip is inexact below the
\* normal range, where a rounding is not a relative error of 2^-PrecBits.
AxisUnderflows(canvas, scale, offset) ==
    LET a == FAdd(canvas, offset)
    IN \/ Underflows(a * scale, Unit)
       \/ Underflows(FMul(a, scale) * Unit, scale)

\* |out - in| <= 5 * 2^-PrecBits * (|in| + |offset|): the four roundings of
\* the round trip (add, multiply, divide, subtract), each a relative error
\* of at most 2^-PrecBits.
WithinTolerance(in, out, offset) ==
    Abs(out - in) * Pow2(PrecBits) <= 5 * (Abs(in) + Abs(offset))

\* C6 as stated: the round trip returns (x, y) exactly, for any scale > 0.
C6_ExactRoundTrip ==
    probe.fn = "roundTrip" => probe.rx = probe.x /\ probe.ry = probe.y

\* C6, amended: for any scale > 0 the round trip returns (x, y) within the
\* floating tolerance of its four roundings, when no intermediate result
\* underflows.
C6_RoundTripWithinTolerance ==
    probe.fn = "roundTrip" =>
        /\ ~AxisUnderflows(probe.x, probe.ds.scale, probe.ds.ox) =>
              WithinTolerance(probe.x, probe.rx, probe.ds.ox)
        /\ ~AxisUnderflows(probe.y, probe.ds.scale, probe.ds.oy) =>
              WithinTolerance(probe.y, probe.ry, probe.ds.oy)

C6_Witness ==
    /\ probe.fn = "roundTrip"
    /\ ~AxisUnderflows(probe.x, probe.ds.scale, probe.ds.ox)
    /\ probe.ds.ox # 0
    /\ probe.sx # 0
    /\ probe.rx # probe.x
    /\ WithinTolerance(probe.x, probe.rx, probe.ds.ox)

(***************************************************************************)
(* SpecTrack: the polling loop against transform changes, creation and     *)
(* removal.  The scales are powers of two and the offsets whole, so every  *)
(* conversion here is exact.                                               *)
(***************************************************************************)
TrackTransforms ==
    {Identity, Transform(2 * Unit, 0, 0),
     Transform(Unit \div 2, Px(-20), Px(10))}

NextTrack ==
    \/ AttachOverlay
    \/ \E t \in TrackTransforms : HostSetTransform(t)
    \/ Tick
    \/ KeyDown(Key("t", FALSE, FALSE))
    \/ CanvasClick(PressPoint)
    \/ \E id \in 1..MaxId : CloseClick(id)

SpecTrack == Init /\ [][NextTrack]_vars

\* The element of note n is where the host's current transform puts the
\* note's world position.
InSync(n) ==
    /\ n.left = ToScreenAxis(n.canvasX, ds.scale, ds.ox)
    /\ n.top = ToScreenAxis(n.canvasY, ds.scale, ds.oy)

\* C7: after every polling tick, each live note that is not being dragged is
\* displayed at (canvas + offset) * scale for the transform current at that
\* tick, whatever transform changes, creations and removals came between
\* ticks.
C7_TickSynchronizes ==
    lastOp.op = "tick" =>
        \A i \in 1..Len(stickyNotes) :
            ~stickyNotes[i].isDragging => InSync(stickyNotes[i])

(***************************************************************************)
(* SpecPersist: loading documents, the deferred restores, and a save       *)
(* followed by a reload of what was saved, on stores built by T+click,     *)
(* editing and earlier restores.                                           *)
(***************************************************************************)
\* What a saved record is meant to carry of a note.
Essence(notes) ==
    [i \in 1..Len(notes) |->
        [id |-> notes[i].id, x |-> notes[i].canvasX, y |-> notes[i].canvasY,
         width |-> notes[i].width, height |-> notes[i].height,
         text |-> notes[i].text, color |-> notes[i].color]]

\* serializeNotes(), clearAllNotes(), then deserializeNotes() of the
\* serialized records.
SaveClearRestore ==
    /\ overlay
    /\ Len(stickyNotes) > 0
    /\ noteIdCounter + Len(stickyNotes) <= MaxId
    /\ LET recs == serializeNotes(stickyNotes)
           r == deserializeNotes(JArr(recs), clearAllNotes(stickyNotes),
                                 noteIdCounter, 0)
       IN /\ stickyNotes' = r.notes
          /\ noteIdCounter' = r.ctr
          /\ raised' = r.raised
          /\ probe' = [fn |-> "saveClearRestore",
                       before |-> Essence(stickyNotes),
                       after |-> Essence(r.notes)]
    /\ selectedNoteId' = clearAllNotesSel(selectedNoteId)
    /\ activeEl' = FocusAfterRemoval(clearAllNotes(stickyNotes))
    /\ lastOp' = Op("saveClearRestore", Null)
    /\ docListeners' =
          clearAllNotesListeners(docListeners, stickyNotes)
              \cup Registered(clearAllNotes(stickyNotes), stickyNotes')
    /\ UNCHANGED <<overlay, ds, last, isTKeyHeld, clipboardNote, timers, now,
                   attempts, interval>>

Documents == {DocPlain, DocSmall, DocBadX, DocNull, DocNoNotes}

NextPersist ==
    \/ AttachOverlay
    \/ KeyDown(Key("t", FALSE, FALSE))
    \/ CanvasClick(PressPoint)
    \/ \E id \in 1..MaxId : DblClickContent(id)
    \/ \E txt \in Texts : UserTypes(txt)
    \/ OverlayMouseDown
    \/ \E g \in Documents : LoadGraphData(g, ds)
    \/ TimerFires
    \/ SaveClearRestore

SpecPersist == Init /\ [][NextPersist]_vars

\* C8: serializeNotes, clearAllNotes, deserializeNotes of the serialized
\* records yields the original store: the same ids, world positions, sizes,
\* text and color, note by note.
C8_SaveRestoreEquivalent ==
    probe.fn = "saveClearRestore" => probe.after = probe.before

\* Entries of a record sequence that are objects with numeric x and y.
WellFormed(recs) ==
    Cardinality({i \in 1..Len(recs) :
                    recs[i].kind = "object" /\ ~Malformed(recs[i])})

\* C9: a restore over records some of which are malformed (x or y not a
\* number, or the entry null) does not raise, and creates one note and
\* allocates one id for each other entry and none for a malformed one.
C9_MalformedSkipped ==
    [][(lastOp'.op = "restore" /\ overlay) =>
          LET recs == Head(timers).data.recs
          IN /\ ~raised'
             /\ Len(stickyNotes') = Len(stickyNotes) + WellFormed(recs)
             /\ noteIdCounter' = noteIdCounter + WellFormed(recs)]_vars

\* A restore callback is pending in the timer queue tq.
RestorePending(tq) == \E i \in 1..Len(tq) : tq[i].kind = "restore"

\* C10: once every pending restore has run, no note of the store was
\* restored from a document other than the most recently loaded one.  The
\* timers fire in scheduling order, so the restore that leaves none pending
\* is the one of the most recent load.
C10_NoStaleDocument ==
    [][(lastOp'.op = "restore" /\ overlay /\ ~RestorePending(timers')) =>
          \A i \in 1..Len(stickyNotes') :
              stickyNotes'[i].doc \in {0, lastOp'.id}]_vars

(***************************************************************************)
(* Ownership of the document-level listeners (checked under Spec).         *)
(***************************************************************************)
\* The drag and resize listeners of the notes of the store.
ListenersOfLive(notes) ==
    UNION {DragListeners(notes[i].id) \cup ResizeListeners(notes[i].id) :
              i \in 1..Len(notes)}

\* C11: the listeners notes registered on document are exactly the drag
\* and resize listeners of the live notes: none is left for a removed note
\* and none of a live note is missing.
C11_ListenersOwnedByLiveNotes ==
    docListeners = ListenersOfLive(stickyNotes)

C11_Witness ==
    /\ lastOp.op \in RemoveOps
    /\ lastOp.id # Null
    /\ lastOp.id \notin Ids(stickyNotes)
    /\ Len(stickyNotes) > 0
    /\ docListeners = ListenersOfLive(stickyNotes)

(***************************************************************************)
(* The colour picker and the host's own input fields.                      *)
(***************************************************************************)
\* changeNoteColor(noteData, colorKey): the note afterwards.
changeNoteColor(n, colorKey) ==
    IF colorKey \notin NOTE_COLORS THEN n ELSE [n EXCEPT !.color = colorKey]

\* click on a colour dot of a note's picker: changeNoteColor.  The note's
\* mousedown listener returns early for a dot (no selection); the press
\* takes the focus to the button.
ColorDotClick(id, key) ==
    /\ Live(id)
    /\ LET f == MoveFocus(Null, timers)
       IN /\ Len(f.tq) <= MaxTimers
          /\ activeEl' = f.focus
          /\ timers' = f.tq
    /\ stickyNotes' = Update(stickyNotes, id,
                             changeNoteColor(Find(stickyNotes, id), key))
    /\ raised' = FALSE
    /\ lastOp' = Op("changeNoteColor", id)
    /\ UNCHANGED <<noteIdCounter, selectedNoteId, overlay, ds, last,
                   isTKeyHeld, clipboardNote, now, probe, docListeners,
                   attempts, interval>>

\* The user clicks into an INPUT or TEXTAREA of the host (outside the
\* overlay and the canvas): it takes the focus.
HostInputFocus ==
    /\ overlay
    /\ activeEl # HostInput
    /\ LET f == MoveFocus(HostInput, timers)
       IN /\ Len(f.tq) <= MaxTimers
          /\ activeEl' = f.focus
          /\ timers' = f.tq
    /\ raised' = FALSE
    /\ lastOp' = Op("hostFocus", Null)
    /\ UNCHANGED <<stickyNotes, noteIdCounter, selectedNoteId, overlay, ds,
                   last, isTKeyHeld, clipboardNote, now, probe, docListeners,
                   attempts, interval>>

(***************************************************************************)
(* SpecEdit: editing against the keyboard shortcuts and the close button,  *)
(* with the focus moving between a content region, the body and a host     *)
(* input.                                                                  *)
(***************************************************************************)
NextEdit ==
    \/ AttachOverlay
    \/ CanvasClick(PressPoint)
    \/ \E e \in ShortcutKeys \cup EditKeys : KeyDown(e)
    \/ \E id \in 1..MaxId : DblClickContent(id)
    \/ \E txt \in Texts : UserTypes(txt)
    \/ \E id \in 1..MaxId : CloseClick(id)
    \/ HostInputFocus
    \/ TimerFires

SpecEdit == Init /\ [][NextEdit]_vars

\* C12: no delete action of the user (Delete or Backspace on the selected
\* note, or a note's close button) removes a note that is in the Editing
\* state.
C12_NoDeleteWhileEditing ==
    [][(lastOp'.op \in RemoveOps /\ lastOp'.id \in Ids(stickyNotes)
           /\ lastOp'.id \notin Ids(stickyNotes')) =>
          ~Find(stickyNotes, lastOp'.id).isEditing]_vars

\* C13: while the focused element is an INPUT, a TEXTAREA or a
\* contentEditable region, a press of T, Ctrl/Cmd+C, Ctrl/Cmd+V, Ctrl/Cmd+D,
\* Delete/Backspace or Escape leaves the creation-mode flag, the clipboard,
\* the set of notes and the selection unchanged.
C13_ShortcutsSuppressedWhileTyping ==
    [][(IsTyping /\ \E e \in ShortcutKeys : KeyDown(e)) =>
          /\ isTKeyHeld' = isTKeyHeld
          /\ clipboardNote' = clipboardNote
          /\ Ids(stickyNotes') = Ids(stickyNotes)
          /\ selectedNoteId' = selectedNoteId]_vars

(***************************************************************************)
(* Allocation of note ids (checked under Spec).                            *)
(***************************************************************************)
CreateOps == {"createStickyNote", "paste", "duplicate", "restore"}

\* C14: note ids are unique and strictly increasing in allocation order and
\* never reused: the counter never decreases, no live id exceeds it, the
\* store holds its notes in increasing id order, and every note that enters
\* the store has an id greater than the counter before, so greater than
\* every id allocated earlier, also after removals, clearAllNotes and loads.
C14_IdsIncrease ==
    [][/\ noteIdCounter' >= noteIdCounter
       /\ \A i \in 1..Len(stickyNotes') :
             /\ stickyNotes'[i].id <= noteIdCounter'
             /\ stickyNotes'[i].id \notin Ids(stickyNotes) =>
                   stickyNotes'[i].id > noteIdCounter
             /\ \A j \in 1..Len(stickyNotes') :
                   i < j => stickyNotes'[i].id < stickyNotes'[j].id]_vars

C14_Witness ==
    /\ lastOp.op \in CreateOps
    /\ Len(stickyNotes) = 1
    /\ stickyNotes[1].id = noteIdCounter
    /\ noteIdCounter > 1

(***************************************************************************)
(* SpecColor: the stored colour under the colour picker, copy, paste,      *)
(* duplicate and the restore of saved colours.                             *)
(***************************************************************************)
\* A record whose saved colour is not a key of NOTE_COLORS.
PurpleRec == Rec(JNum(Px(10)), JNum(Px(20)), JUndef, JUndef, JUndef,
                 JStr("purple"), JUndef)
DocPurple == GraphData(6, TRUE, <<PurpleRec>>)

NextColor ==
    \/ AttachOverlay
    \/ CanvasClick(PressPoint)
    \/ \E e \in ShortcutKeys : KeyDown(e)
    \/ \E id \in 1..MaxId : NoteMouseDown(id, TRUE)
    \/ \E id \in 1..MaxId : ColorDotClick(id, "pink")
    \/ \E g \in {DocPlain, DocPurple} : LoadGraphData(g, ds)
    \/ TimerFires

SpecColor == Init /\ [][NextColor]_vars

\* C15: every live note's stored colour is a key of the palette, so
\* serializeNotes emits no other colour.
C15_ColorInPalette ==
    \A i \in 1..Len(stickyNotes) :
        /\ stickyNotes[i].color \in NOTE_COLORS
        /\ serializeNotes(stickyNotes)[i].color.v \in NOTE_COLORS

(***************************************************************************)
(* The serialize hook.  A host document is what the host's own             *)
(* LGraph.serialize returned: its other fields (nodes stands for them) and *)
(* its extra section, absent or a map from keys to values.                 *)
(***************************************************************************)
EXTENSION_KEY == "stickyNotes"

HostData(nodes, hasExtra, extra) ==
    [nodes |-> nodes, hasExtra |-> hasExtra, extra |-> extra]

\* The wrapper installed on LGraph.prototype.serialize, applied to the
\* host's result: data.extra is created when missing and
\* data.extra[EXTENSION_KEY] is assigned serializeNotes().
hookGraphSerialization_ReplaceExtra(data, notes) ==
    [data EXCEPT !.hasExtra = TRUE,
                 !.extra = [k \in {EXTENSION_KEY} |-> serializeNotes(notes)]]
hookGraphSerialization(data, notes) ==
    LET extra == IF data.hasExtra THEN data.extra ELSE <<>>
    IN [data EXCEPT
          !.hasExtra = TRUE,
          !.extra = [k \in DOMAIN extra \cup {EXTENSION_KEY} |->
                        IF k = EXTENSION_KEY THEN serializeNotes(notes)
                        ELSE extra[k]]]

\* What the host's serialize returns: no extra section, one with the
\* host's own keys, and one that already holds notes saved earlier.
HostDocuments ==
    {HostData(1, FALSE, <<>>),
     HostData(2, TRUE, [k \in {"ds", "groupNodes"} |-> 7]),
     HostData(3, TRUE, [k \in {"ds", EXTENSION_KEY} |->
                           IF k = "ds" THEN 7 ELSE <<>>])}

\* The host saves the workflow: graph.serialize().
Save(data) ==
    /\ probe' = [fn |-> "serialize", host |-> data,
                 data |-> hookGraphSerialization(data, stickyNotes)]
    /\ probe' # probe
    /\ raised' = FALSE
    /\ lastOp' = Op("serialize", Null)
    /\ UNCHANGED <<stickyNotes, noteIdCounter, selectedNoteId, overlay, ds,
                   last, isTKeyHeld, clipboardNote, timers, activeEl, now,
                   docListeners,
                   attempts, interval>>

(***************************************************************************)
(* SpecSave: saves of the host's documents over stores built by T+click,   *)
(* selection, copy and removal.                                            *)
(***************************************************************************)
NextSave ==
    \/ AttachOverlay
    \/ CanvasClick(PressPoint)
    \/ \E e \in {Key("t", FALSE, FALSE), Key("c", TRUE, FALSE),
                 Key("Delete", FALSE, FALSE)} : KeyDown(e)
    \/ KeyUpT
    \/ \E id \in 1..MaxId : NoteMouseDown(id, TRUE)
    \/ \E data \in HostDocuments : Save(data)

SpecSave == Init /\ [][NextSave]_vars

\* C20: a save writes only the reserved key into the document's extra
\* section, creating the section when absent; every other key of extra and
\* every other field of the document stay as the host produced them, and
\* the store, the selection and the clipboard are unchanged.
C20_SaveWritesOnlyItsKey ==
    [][lastOp'.op = "serialize" =>
          LET host == probe'.host
              data == probe'.data
              before == IF host.hasExtra THEN DOMAIN host.extra ELSE {}
          IN /\ data.nodes = host.nodes
             /\ data.hasExtra
             /\ DOMAIN data.extra = before \cup {EXTENSION_KEY}
             /\ \A k \in before \ {EXTENSION_KEY} :
                   data.extra[k] = host.extra[k]
             /\ data.extra[EXTENSION_KEY] = serializeNotes(stickyNotes)
             /\ stickyNotes' = stickyNotes
             /\ selectedNoteId' = selectedNoteId
             /\ clipboardNote' = clipboardNote]_vars

C20_Witness ==
    /\ lastOp.op = "serialize"
    /\ probe.host.hasExtra
    /\ "groupNodes" \in DOMAIN probe.host.extra
    /\ Len(probe.data.extra[EXTENSION_KEY]) > 0
    /\ selectedNoteId # Null
    /\ clipboardNote # NoClip

(***************************************************************************)
(* SpecDrag: header drags against zooms of the host, the polling tick,     *)
(* resizes and the selecting of a single note.  The pointer and the note   *)
(* stay inside a view of MaxPos pixels on each side of the origin.         *)
(***************************************************************************)
MaxPos == 30

WithinView(notes) ==
    \A i \in 1..Len(notes) :
        /\ Abs(notes[i].left) <= Px(MaxPos)
        /\ Abs(notes[i].top) <= Px(MaxPos)

DragPoint == <<Px(70), Px(50)>>

NextDrag ==
    \/ AttachOverlay
    \/ KeyDown(Key("t", FALSE, FALSE))
    \/ CanvasClick(PressPoint) /\ Len(stickyNotes') <= 1
    \/ \E t \in ResizeScales : HostSetTransform(t)
    \/ Tick /\ WithinView(stickyNotes')
    \/ \E id \in 1..MaxId : NoGesture /\ HeaderMouseDown(id, PressPoint)
    \/ \E id \in 1..MaxId : NoGesture /\ ResizeMouseDown(id, PressPoint)
    \/ DocMouseMove(DragPoint)
          /\ WithinView(stickyNotes') /\ WithinSizeCap(stickyNotes')
    \/ DocMouseUp

SpecDrag == Init /\ [][NextDrag]_vars

\* C17: the stored world position of a live note changes only at the
\* pointer release that ends a drag of that note, and what is stored then
\* is screenToCanvas of the position the element has in the view at that
\* moment; no other step changes it.
C17_PositionOnlyAtDragEnd ==
    [][\A id \in Ids(stickyNotes) \cap Ids(stickyNotes') :
          LET a == Find(stickyNotes, id)
              b == Find(stickyNotes', id)
              dropped == lastOp'.op = "mouseUp" /\ a.isDragging
          IN /\ (b.canvasX # a.canvasX \/ b.canvasY # a.canvasY) => dropped
             /\ dropped =>
                   LET c == screenToCanvas(a.left, a.top)
                   IN b.canvasX = c.x /\ b.canvasY = c.y]_vars

(***************************************************************************)
(* SpecText: editing (double click, typing, Enter, Escape, blur) against   *)
(* every other operation on an existing note: select, deselect, a header   *)
(* drag, a resize, a colour change, copy, duplicate, a pan of the host     *)
(* with the polling tick, and a save.                                      *)
(***************************************************************************)
TextKeys ==
    {Key("t", FALSE, FALSE), Key("c", TRUE, FALSE), Key("d", TRUE, FALSE),
     Key("Escape", FALSE, FALSE), Key("Enter", FALSE, FALSE),
     Key("Enter", FALSE, TRUE)}

Panned == Transform(Unit, Px(-10), 0)
TextPoint == <<Px(10), Px(10)>>

\* A save changes nothing but the record of the document it produced, and
\* a copy nothing but the clipboard, which no step here reads: what can
\* follow either is what can follow the state it was taken in.  Saves and
\* copies are taken in every state and the other steps explored from the
\* states without one; the same is done after a duplicate, so that the
\* store holds the first note and at most its duplicate.
Quiet ==
    /\ probe = NoProbe
    /\ clipboardNote = NoClip
    /\ Len(stickyNotes) <= 1

\* The polling tick runs every frame: a press on a header finds the view in
\* step with the host's transform.
NextText ==
    \/ Quiet /\ AttachOverlay
    \/ Quiet /\ CanvasClick(TextPoint)
    \/ \E e \in TextKeys : Quiet /\ KeyDown(e)
    \/ \E id \in 1..MaxId : Quiet /\ DblClickContent(id)
    \/ Quiet /\ UserTypes("a")
    \/ \E id \in 1..MaxId : Quiet /\ NoteMouseDown(id, TRUE)
    \/ Quiet /\ OverlayMouseDown
    \/ \E id \in 1..MaxId :
          Quiet /\ NoGesture /\ ds = last /\ HeaderMouseDown(id, PressPoint)
    \/ \E id \in 1..MaxId :
          Quiet /\ NoGesture /\ ResizeMouseDown(id, PressPoint)
    \/ Quiet /\ DocMouseMove(DragPoint)
          /\ WithinSizeCap(stickyNotes') /\ WithinView(stickyNotes')
          /\ stickyNotes' # stickyNotes
    \/ Quiet /\ DocMouseUp
    \/ \E id \in 1..MaxId : Quiet /\ ColorDotClick(id, "pink")
    \/ Quiet /\ HostSetTransform(Panned)
    \/ Quiet /\ Tick /\ WithinView(stickyNotes')
    \/ Quiet /\ TimerFires
    \/ Save(HostData(1, FALSE, <<>>))

SpecText == Init /\ [][NextText]_vars

\* The operations the claim names as leaving the text alone.
NonTextOps ==
    {"noteMouseDown", "headerMouseDown", "mouseMove", "mouseUp",
     "resizeMouseDown", "changeNoteColor", "copy", "duplicate", "tick",
     "transform", "serialize"}

\* C16: the stored text of a note that stays in the store changes only
\* where stopEditing runs on that note while it is being edited (the edited
\* text is then what is stored); selecting, dragging, resizing, recolouring,
\* copying, duplicating, the polling tick and a save never change it.
C16_TextOnlyOnCommit ==
    [][\A id \in Ids(stickyNotes) \cap Ids(stickyNotes') :
          LET a == Find(stickyNotes, id)
              b == Find(stickyNotes', id)
          IN /\ b.text # a.text =>
                   a.isEditing /\ ~b.isEditing /\ b.text = a.buf
             /\ lastOp'.op \in NonTextOps => b.text = a.text]_vars

C16_Witness ==
    /\ lastOp.op \in {"commit", "stopEditing", "blurTimeout"}
    /\ lastOp.id \in Ids(stickyNotes)
    /\ Find(stickyNotes, lastOp.id).text = "a"
    /\ ~Find(stickyNotes, lastOp.id).isEditing

(***************************************************************************)
(* parseMarkdown.  A text is a sequence of characters; the function is a   *)
(* chain of global regular-expression replacements, each applied to the    *)
(* result of the one before, leftmost match first and the scan resuming    *)
(* behind the match.                                                       *)
(***************************************************************************)
NL == "\n"
Digits == {"0", "1", "2", "3", "4", "5", "6", "7", "8", "9"}
\* The double-quote and backtick characters, which a string here cannot
\* hold.
DQ == "quot"
BT == "backtick"

\* The characters of a string literal of the source.
Chars(str) ==
    CASE str = "&amp;" -> <<"&", "a", "m", "p", ";">>
      [] str = "&lt;" -> <<"&", "l", "t", ";">>
      [] str = "&gt;" -> <<"&", "g", "t", ";">>
      [] str = "<h1>" -> <<"<", "h", "1", ">">>
      [] str = "</h1>" -> <<"<", "/", "h", "1", ">">>
      [] str = "<h2>" -> <<"<", "h", "2", ">">>
      [] str = "</h2>" -> <<"<", "/", "h", "2", ">">>
      [] str = "<h3>" -> <<"<", "h", "3", ">">>
      [] str = "</h3>" -> <<"<", "/", "h", "3", ">">>
      [] str = "<blockquote>" -> <<"<", "b", "l", "o", "c", "k", "q", "u", "o", "t", "e", ">">>
      [] str = "</blockquote>" -> <<"<", "/", "b", "l", "o", "c", "k", "q", "u", "o", "t", "e", ">">>
      [] str = "<pre><code>" -> <<"<", "p", "r", "e", ">", "<", "c", "o", "d", "e", ">">>
      [] str = "</code></pre>" -> <<"<", "/", "c", "o", "d", "e", ">", "<", "/", "p", "r", "e", ">">>
      [] str = "<code>" -> <<"<", "c", "o", "d", "e", ">">>
      [] str = "</code>" -> <<"<", "/", "c", "o", "d", "e", ">">>
      [] str = "<strong>" -> <<"<", "s", "t", "r", "o", "n", "g", ">">>
      [] str = "</strong>" -> <<"<", "/", "s", "t", "r", "o", "n", "g", ">">>
      [] str = "<em>" -> <<"<", "e", "m", ">">>
      [] str = "</em>" -> <<"<", "/", "e", "m", ">">>
      [] str = "<del>" -> <<"<", "d", "e", "l", ">">>
      [] str = "</del>" -> <<"<", "/", "d", "e", "l", ">">>
      [] str = "</a>" -> <<"<", "/", "a", ">">>
      [] str = "<li>" -> <<"<", "l", "i", ">">>
      [] str = "</li>" -> <<"<", "/", "l", "i", ">">>
      [] str = "<ul>" -> <<"<", "u", "l", ">">>
      [] str = "</ul>" -> <<"<", "/", "u", "l", ">">>
      [] str = "<hr>" -> <<"<", "h", "r", ">">>
      [] str = "<br>" -> <<"<", "b", "r", ">">>
      [] str = "<pre>" -> <<"<", "p", "r", "e", ">">>
      [] str = "</pre>" -> <<"<", "/", "p", "r", "e", ">">>

LinkOpen == <<"<", "a", " ", "h", "r", "e", "f", "=", DQ>>
LinkMid ==
    <<DQ, " ", "t", "a", "r", "g", "e", "t", "=", DQ, "_", "b", "l", "a",
      "n", "k", DQ, " ", "r", "e", "l", "=", DQ, "n", "o", "o", "p", "e",
      "n", "e", "r", DQ, ">">>
\* The pattern pat stands in s at position i.
StartsWith(s, i, pat) ==
    /\ i + Len(pat) - 1 <= Len(s)
    /\ SubSeq(s, i, i + Len(pat) - 1) = pat

\* The leftmost of a set of positions; 0 if there is none.
First(positions) ==
    IF positions = {} THEN 0
    ELSE CHOOSE j \in positions : \A k \in positions : j <= k

\* Position of the first occurrence of pat in s at or after i; 0 if none.
FindFrom(s, i, pat) == First({j \in i..Len(s) : StartsWith(s, j, pat)})

\* The text of s from position i on.
Rest(s, i) == SubSeq(s, i, Len(s))

\* .replace(/pat/g, rep) for a literal pattern: the text up to the
\* leftmost match is kept and the scan resumes behind the match.
RECURSIVE ReplaceFrom(_, _, _, _)
ReplaceFrom(s, i, pat, rep) ==
    LET m == FindFrom(s, i, pat)
    IN IF m = 0 THEN Rest(s, i)
       ELSE SubSeq(s, i, m - 1) \o rep
              \o ReplaceFrom(s, m + Len(pat), pat, rep)

ReplaceAll(s, pat, rep) == ReplaceFrom(s, 1, pat, rep)

\* Escape HTML first: &, then <, then >.
EscapeHtml_AmpOnly(s) == ReplaceAll(s, <<"&">>, Chars("&amp;"))
EscapeHtml(s) ==
    ReplaceAll(ReplaceAll(ReplaceAll(s, <<"&">>, Chars("&amp;")), <<"<">>, Chars("&lt;")),
               <<">">>, Chars("&gt;"))

\* ^ and $ under the m flag: a line starts at 1 or behind a newline and
\* ends before the next newline or at the end of the text.
AtLineStart(s, i) == i = 1 \/ s[i - 1] = NL

LineEnd(s, i) ==
    LET n == FindFrom(s, i, <<NL>>) IN IF n = 0 THEN Len(s) ELSE n - 1

\* \d+ at i: the position behind the digits.
DigitsEnd(s, i) ==
    LET n == First({j \in i..Len(s) : s[j] \notin Digits})
    IN IF n = 0 THEN Len(s) + 1 ELSE n

\* Length of the line prefix of the given kind standing at i; 0 if none.
\* h3: "### ", h2: "## ", h1: "# ", quote: "&gt; ", ul: [\-\*] and a space,
\* ol: \d+\. and a space.
PrefixLen(s, i, kind) ==
    CASE kind = "h3" ->
           IF StartsWith(s, i, <<"#", "#", "#", " ">>) THEN 4 ELSE 0
      [] kind = "h2" -> IF StartsWith(s, i, <<"#", "#", " ">>) THEN 3 ELSE 0
      [] kind = "h1" -> IF StartsWith(s, i, <<"#", " ">>) THEN 2 ELSE 0
      [] kind = "quote" -> IF StartsWith(s, i, Chars("&gt;") \o <<" ">>) THEN 5 ELSE 0
      [] kind = "ul" ->
           IF StartsWith(s, i, <<"-", " ">>) \/ StartsWith(s, i, <<"*", " ">>)
           THEN 2 ELSE 0
      [] kind = "ol" ->
           LET d == DigitsEnd(s, i)
           IN IF d > i /\ StartsWith(s, d, <<".", " ">>) THEN d - i + 2 ELSE 0

\* /^prefix(.+)$/m matches at j.
LineAt(s, j, kind) ==
    /\ AtLineStart(s, j)
    /\ PrefixLen(s, j, kind) > 0
    /\ j + PrefixLen(s, j, kind) <= LineEnd(s, j)

\* .replace(/^prefix(.+)$/gm, open + '$1' + close)
RECURSIVE LineRuleFrom(_, _, _, _, _)
LineRuleFrom(s, i, kind, open, close) ==
    LET m == First({j \in i..Len(s) : LineAt(s, j, kind)})
        e == LineEnd(s, m)
    IN IF m = 0 THEN Rest(s, i)
       ELSE SubSeq(s, i, m - 1) \o open
              \o SubSeq(s, m + PrefixLen(s, m, kind), e) \o close
              \o LineRuleFrom(s, e + 1, kind, open, close)

LineRule(s, kind, open, close) == LineRuleFrom(s, 1, kind, open, close)

\* (.+?) followed by the delimiter d: the first d at or after j with at
\* least one character before it and no newline on the way; 0 if none.
FindLazyDot(s, j, d) ==
    First({k \in j..Len(s) :
              /\ StartsWith(s, k, d)
              /\ \A c \in (j - 1)..(k - 1) : s[c] # NL})

\* Where the closing delimiter of a match opening at i stands; 0 if the
\* pattern does not match at i.  any: d([\s\S]*?)d, dot: d(.+?)d,
\* not: d([^d]+)d for a one-character d.
CloseOf(s, i, d, mode) ==
    IF ~StartsWith(s, i, d) THEN 0
    ELSE CASE mode = "any" -> FindFrom(s, i + Len(d), d)
           [] mode = "dot" -> FindLazyDot(s, i + Len(d) + 1, d)
           [] mode = "not" ->
                LET k == FindFrom(s, i + 1, d)
                IN IF k > i + 1 THEN k ELSE 0

\* .replace(/d(...)d/g, open + '$1' + close)
RECURSIVE SpanRuleFrom(_, _, _, _, _, _)
SpanRuleFrom(s, i, d, mode, open, close) ==
    LET m == First({j \in i..Len(s) : CloseOf(s, j, d, mode) > 0})
        c == CloseOf(s, m, d, mode)
    IN IF m = 0 THEN Rest(s, i)
       ELSE SubSeq(s, i, m - 1) \o open
              \o SubSeq(s, m + Len(d), c - 1) \o close
              \o SpanRuleFrom(s, c + Len(d), d, mode, open, close)

SpanRule(s, d, mode, open, close) == SpanRuleFrom(s, 1, d, mode, open, close)

\* /\[([^\]]+)\]\(([^)]+)\)/ at i: the positions of "]" and of ")", or
\* <<0, 0>> if there is no match at i.
LinkAt(s, i) ==
    IF ~StartsWith(s, i, <<"[">>) THEN <<0, 0>>
    ELSE LET b == FindFrom(s, i + 1, <<"]">>)
         IN IF b <= i + 1 \/ ~StartsWith(s, b + 1, <<"(">>) THEN <<0, 0>>
            ELSE LET c == FindFrom(s, b + 2, <<")">>)
                 IN IF c <= b + 2 THEN <<0, 0>> ELSE <<b, c>>

\* .replace(link, '<a href="$2" target="_blank" rel="noopener">$1</a>')
RECURSIVE LinkRuleFrom(_, _)
LinkRuleFrom(s, i) ==
    LET m == First({j \in i..Len(s) : LinkAt(s, j)[1] > 0})
        at == LinkAt(s, m)
    IN IF m = 0 THEN Rest(s, i)
       ELSE SubSeq(s, i, m - 1)
              \o LinkOpen \o SubSeq(s, at[1] + 2, at[2] - 1) \o LinkMid
              \o SubSeq(s, m + 1, at[1] - 1) \o Chars("</a>")
              \o LinkRuleFrom(s, at[2] + 1)

\* .replace(/^---$/gm, '<hr>')
RECURSIVE RuleLineFrom(_, _)
RuleLineFrom(s, i) ==
    LET m == First({j \in i..Len(s) :
                       /\ AtLineStart(s, j)
                       /\ StartsWith(s, j, <<"-", "-", "-">>)
                       /\ LineEnd(s, j) = j + 2})
    IN IF m = 0 THEN Rest(s, i)
       ELSE SubSeq(s, i, m - 1) \o Chars("<hr>") \o RuleLineFrom(s, m + 3)

\* <li>.*?<\/li> at j: the position of the closing tag; 0 if no item
\* stands at j.
ItemClose(s, j) ==
    IF StartsWith(s, j, Chars("<li>")) THEN FindFrom(s, j + Len(Chars("<li>")), Chars("</li>"))
    ELSE 0

\* html.replace(/(<li>.*?<\/li>)(<br>)?/g, '$1')
RECURSIVE JoinItemsFrom(_, _)
JoinItemsFrom(s, i) ==
    LET m == First({j \in i..Len(s) : ItemClose(s, j) > 0})
        e == ItemClose(s, m) + Len(Chars("</li>"))
    IN IF m = 0 THEN Rest(s, i)
       ELSE SubSeq(s, i, e - 1)
              \o JoinItemsFrom(s, IF StartsWith(s, e, Chars("<br>"))
                                  THEN e + Len(Chars("<br>")) ELSE e)

\* (?:<li>.*?<\/li>)+ at i: the position behind the last item of the run,
\* or i if no item stands at i.
RECURSIVE ItemsEnd(_, _)
ItemsEnd(s, i) ==
    IF ItemClose(s, i) > 0
    THEN ItemsEnd(s, ItemClose(s, i) + Len(Chars("</li>")))
    ELSE i

\* html.replace(/((?:<li>.*?<\/li>)+)/g, '<ul>$1</ul>')
RECURSIVE WrapItemsFrom(_, _)
WrapItemsFrom(s, i) ==
    LET m == First({j \in i..Len(s) : ItemClose(s, j) > 0})
        e == ItemsEnd(s, m)
    IN IF m = 0 THEN Rest(s, i)
       ELSE SubSeq(s, i, m - 1) \o Chars("<ul>") \o SubSeq(s, m, e - 1)
              \o Chars("</ul>") \o WrapItemsFrom(s, e)

\* html.replace(/<br>(tag)/g, '$1') for the tags of a set.
RECURSIVE DropBrBeforeFrom(_, _, _)
DropBrBeforeFrom(s, i, tags) ==
    LET m == First({j \in i..Len(s) :
                       \E t \in tags : StartsWith(s, j, Chars("<br>") \o t)})
    IN IF m = 0 THEN Rest(s, i)
       ELSE SubSeq(s, i, m - 1)
              \o DropBrBeforeFrom(s, m + Len(Chars("<br>")), tags)

\* html.replace(/(tag)<br>/g, '$1') for the tags of a set.
RECURSIVE DropBrAfterFrom(_, _, _)
DropBrAfterFrom(s, i, tags) ==
    LET m == First({j \in i..Len(s) :
                       \E t \in tags : StartsWith(s, j, t \o Chars("<br>"))})
        t == CHOOSE t \in tags : StartsWith(s, m, t \o Chars("<br>"))
    IN IF m = 0 THEN Rest(s, i)
       ELSE SubSeq(s, i, m - 1) \o t
              \o DropBrAfterFrom(s, m + Len(t) + Len(Chars("<br>")), tags)

\* The two replacements around the tags of one block element.
CleanBlock(s, opens, closes) ==
    DropBrAfterFrom(DropBrBeforeFrom(s, 1, opens), 1, closes)

\* The inline replacements, in the order of the chain.
InlineRules(s) ==
    LET code3 == SpanRule(s, <<BT, BT, BT>>, "any", Chars("<pre><code>"), Chars("</code></pre>"))
        code1 == SpanRule(code3, <<BT>>, "not", Chars("<code>"), Chars("</code>"))
        bold1 == SpanRule(code1, <<"*", "*">>, "dot", Chars("<strong>"), Chars("</strong>"))
        bold2 == SpanRule(bold1, <<"_", "_">>, "dot", Chars("<strong>"), Chars("</strong>"))
        em1 == SpanRule(bold2, <<"*">>, "not", Chars("<em>"), Chars("</em>"))
        em2 == SpanRule(em1, <<"_">>, "not", Chars("<em>"), Chars("</em>"))
        del == SpanRule(em2, <<"~", "~">>, "dot", Chars("<del>"), Chars("</del>"))
    IN LinkRuleFrom(del, 1)

\* The headers and the blockquote.
BlockRules(s) ==
    LET h3 == LineRule(s, "h3", Chars("<h3>"), Chars("</h3>"))
        h2 == LineRule(h3, "h2", Chars("<h2>"), Chars("</h2>"))
        h1 == LineRule(h2, "h1", Chars("<h1>"), Chars("</h1>"))
    IN LineRule(h1, "quote", Chars("<blockquote>"), Chars("</blockquote>"))

\* The list items, the horizontal rule, the line breaks and the wrapping
\* of the items.
ListRules(s) ==
    LET ul == LineRule(s, "ul", Chars("<li>"), Chars("</li>"))
        ol == LineRule(ul, "ol", Chars("<li>"), Chars("</li>"))
        hr == RuleLineFrom(ol, 1)
        br == ReplaceAll(hr, <<NL>>, Chars("<br>"))
    IN WrapItemsFrom(JoinItemsFrom(br, 1), 1)

\* Clean up extra <br> around block elements.
CleanRules(s) ==
    LET c1 == CleanBlock(s, {Chars("<h1>"), Chars("<h2>"), Chars("<h3>")},
                         {Chars("</h1>"), Chars("</h2>"), Chars("</h3>")})
        c2 == CleanBlock(c1, {Chars("<blockquote>")}, {Chars("</blockquote>")})
        c3 == CleanBlock(c2, {Chars("<ul>")}, {Chars("</ul>")})
        c4 == CleanBlock(c3, {Chars("<pre>")}, {Chars("</pre>")})
    IN CleanBlock(c4, {Chars("<hr>")}, {Chars("<hr>")})

\* The element of a one-element set.
Only(S) == CHOOSE x \in S : TRUE

\* The chain of parseMarkdown: each group of replacements is applied to
\* the finished result of the group before it.
parseMarkdown(text) ==
    IF text = <<>> THEN <<>>
    ELSE Only({CleanRules(l) :
                 l \in {ListRules(n) :
                          n \in {InlineRules(b) :
                                   b \in {BlockRules(e) :
                                            e \in {EscapeHtml(text)}}}}})

(***************************************************************************)
(* SpecMarkdown: parseMarkdown applied to texts of up to MaxLines lines    *)
(* drawn from MdLines: list items of the three forms, plain text, the      *)
(* characters <, > and & bare and inside a heading, a blockquote, bold,    *)
(* inline code and a link.                                                 *)
(***************************************************************************)
MaxLines == 3

MdLines ==
    {<<"-", " ", "a">>,
     <<"*", " ", "b">>,
     <<"1", ".", " ", "c">>,
     <<"a">>,
     <<"<", "b", ">">>,
     <<">", " ", "q">>,
     <<"*", "*", "&", "*", "*">>,
     <<"[", "x", "]", "(", "<", ")">>,
     <<"#", " ", "<">>,
     <<BT, ">", BT>>}

MdInputs == {<<>>} \cup UNION {[1..n -> MdLines] : n \in 1..MaxLines}

\* The lines joined by newlines: the text of a note.
RECURSIVE JoinLines(_, _)
JoinLines(lines, k) ==
    IF k > Len(lines) THEN <<>>
    ELSE (IF k > 1 THEN <<NL>> ELSE <<>>) \o lines[k]
           \o JoinLines(lines, k + 1)

InitMarkdown ==
    /\ stickyNotes = <<>>
    /\ noteIdCounter = 0
    /\ selectedNoteId = Null
    /\ overlay = FALSE
    /\ ds = Identity
    /\ last = Identity
    /\ isTKeyHeld = FALSE
    /\ clipboardNote = NoClip
    /\ timers = <<>>
    /\ activeEl = Null
    /\ now = 1
    /\ raised = FALSE
    /\ lastOp = NoOp
    /\ probe \in {[fn |-> "text", lines |-> ls] : ls \in MdInputs}
    /\ docListeners = {}
    /\ attempts = 0
    /\ interval = "active"

\* renderNoteContent: content.innerHTML = parseMarkdown(noteData.text).
Render ==
    /\ probe.fn = "text"
    /\ probe' = [fn |-> "parseMarkdown", lines |-> probe.lines,
                 text |-> JoinLines(probe.lines, 1),
                 html |-> parseMarkdown(JoinLines(probe.lines, 1))]
    /\ lastOp' = Op("parseMarkdown", Null)
    /\ raised' = FALSE
    /\ UNCHANGED <<stickyNotes, noteIdCounter, selectedNoteId, overlay, ds,
                   last, isTKeyHeld, clipboardNote, timers, activeEl, now,
                   docListeners,
                   attempts, interval>>

NextMarkdown == Render

SpecMarkdown == InitMarkdown /\ [][NextMarkdown]_vars

\* Number of occurrences of pat in s from position i on.
Count(s, i, pat) == Cardinality({j \in i..Len(s) : StartsWith(s, j, pat)})

\* The tags the replacement strings of parseMarkdown contain, whole, and
\* the two parts of the link's opening tag around the address.
RendererTags ==
    {Chars("<h1>"), Chars("</h1>"), Chars("<h2>"), Chars("</h2>"), Chars("<h3>"), Chars("</h3>"), Chars("<blockquote>"),
     Chars("</blockquote>"), Chars("<pre>"), Chars("</pre>"), Chars("<code>"), Chars("</code>"), Chars("<strong>"),
     Chars("</strong>"), Chars("<em>"), Chars("</em>"), Chars("<del>"), Chars("</del>"), Chars("</a>"), Chars("<li>"),
     Chars("</li>"), Chars("<ul>"), Chars("</ul>"), Chars("<hr>"), Chars("<br>")}

\* Every <, > and & of html belongs to a tag of the renderer or to an
\* entity.
OnlyRendererMarkup(html) ==
    \A i \in 1..Len(html) :
        /\ html[i] = "<" =>
              \E t \in RendererTags \cup {LinkOpen} : StartsWith(html, i, t)
        /\ html[i] = ">" =>
              \E t \in RendererTags \cup {LinkMid} :
                  /\ i >= Len(t)
                  /\ StartsWith(html, i - Len(t) + 1, t)
        /\ html[i] = "&" =>
              \E e \in {Chars("&amp;"), Chars("&lt;"), Chars("&gt;")} : StartsWith(html, i, e)

\* C18: in parseMarkdown's output every <, > and & of the input stands
\* escaped (each < as &lt;, each & as &amp;, each > as &gt; unless it was
\* the marker of a blockquote, which the blockquote tag replaces), and
\* every other <, > and & belongs to a tag of the renderer.
C18_InputMarkupEscaped ==
    probe.fn = "parseMarkdown" =>
        /\ OnlyRendererMarkup(probe.html)
        /\ Count(probe.html, 1, Chars("&lt;")) = Count(probe.text, 1, <<"<">>)
        /\ Count(probe.html, 1, Chars("&amp;")) = Count(probe.text, 1, <<"&">>)
        /\ Count(probe.html, 1, Chars("&gt;")) + Count(probe.html, 1, Chars("<blockquote>"))
              = Count(probe.text, 1, <<">">>)

C18_Witness ==
    /\ probe.fn = "parseMarkdown"
    /\ Count(probe.text, 1, <<"<">>) > 1
    /\ Count(probe.text, 1, <<"&">>) > 0
    /\ Count(probe.html, 1, Chars("&lt;")) > 1
    /\ Count(probe.html, 1, Chars("<strong>")) > 0
    /\ Count(probe.html, 1, LinkOpen) > 0

\* A list-item line: "- ", "* " or digits and ". ", then the item's text.
IsListLine(line) ==
    \/ PrefixLen(line, 1, "ul") \in 1..(Len(line) - 1)
    \/ PrefixLen(line, 1, "ol") \in 1..(Len(line) - 1)

ItemText(line) ==
    SubSeq(line, Max(PrefixLen(line, 1, "ul"), PrefixLen(line, 1, "ol")) + 1,
           Len(line))

RECURSIVE Items(_, _)
Items(lines, k) ==
    IF k > Len(lines) THEN <<>>
    ELSE Chars("<li>") \o ItemText(lines[k]) \o Chars("</li>") \o Items(lines, k + 1)

\* C19: a text of N >= 2 list-item lines, whatever their bullets, renders
\* as one list container holding the N items in order, with no line break
\* between them.
C19_ListRunWrappedOnce ==
    (/\ probe.fn = "parseMarkdown"
     /\ Len(probe.lines) >= 2
     /\ \A k \in 1..Len(probe.lines) : IsListLine(probe.lines[k]))
        => probe.html = Chars("<ul>") \o Items(probe.lines, 1) \o Chars("</ul>")


(***************************************************************************)
(* SpecLoad: loads of documents that carry no notes (no extra section, no  *)
(* key, an empty array, a non-array value) and of one that does, with the  *)
(* deferred restores and notes the user creates in between.                *)
(***************************************************************************)
EmptyDocuments ==
    {GraphValue(7, FALSE, JUndef), DocNoNotes,
     GraphValue(8, TRUE, JArr(<<>>)), GraphValue(9, TRUE, JStr("notes")),
     GraphValue(10, TRUE, JObj), GraphValue(11, TRUE, JNum(0))}

NextLoad ==
    \/ AttachOverlay
    \/ KeyDown(Key("t", FALSE, FALSE))
    \/ CanvasClick(PressPoint)
    \/ \E g \in EmptyDocuments \cup {DocPlain} : LoadGraphData(g, ds)
    \/ TimerFires

SpecLoad == Init /\ [][NextLoad]_vars

\* The restore of a document of EmptyDocuments is the step taken.
EmptyRestore ==
    /\ lastOp'.op = "restore"
    /\ Head(timers).data \in EmptyDocuments

\* The restore of a document without notes creates nothing, allocates no id
\* and does not raise.
EmptyRestoreIsNoOp ==
    [][EmptyRestore =>
          /\ ~raised'
          /\ stickyNotes' = stickyNotes
          /\ noteIdCounter' = noteIdCounter]_vars

\* C21: loading a document whose extra section is missing, lacks the key,
\* or holds an empty or non-array value under it creates no note and raises
\* no error: after its deferred restore the store holds only notes the user
\* created since the load cleared it.
C21_EmptyLoadRestoresNothing ==
    [][EmptyRestore =>
          /\ ~raised'
          /\ stickyNotes' = stickyNotes
          /\ noteIdCounter' = noteIdCounter
          /\ \A i \in 1..Len(stickyNotes') : stickyNotes'[i].doc = 0]_vars

(***************************************************************************)
(* SpecInit: initialization from the call of setup() on, with the canvas   *)
(* becoming ready at any attempt or never, and the user creating notes     *)
(* once the overlay is there.  The browser runs setup() and fires the      *)
(* interval for as long as it is active.                                   *)
(***************************************************************************)
InitSetup ==
    /\ stickyNotes = <<>>
    /\ noteIdCounter = 0
    /\ selectedNoteId = Null
    /\ overlay = FALSE
    /\ ds = Identity
    /\ last = Identity
    /\ isTKeyHeld = FALSE
    /\ clipboardNote = NoClip
    /\ timers = <<>>
    /\ activeEl = Null
    /\ now = 1
    /\ raised = FALSE
    /\ lastOp = NoOp
    /\ probe = NoProbe
    /\ docListeners = {}
    /\ attempts = 0
    /\ interval = "unset"

NextInit ==
    \/ \E ready \in BOOLEAN : waitForCanvasAndAttach(ready)
    \/ CheckCanvasFails
    \/ AttachOverlay
    \/ KeyDown(Key("t", FALSE, FALSE))
    \/ KeyUpT
    \/ CanvasClick(PressPoint)

SpecInit ==
    /\ InitSetup
    /\ [][NextInit]_vars
    /\ WF_vars(\E ready \in BOOLEAN : waitForCanvasAndAttach(ready))
    /\ WF_vars(CheckCanvasFails \/ AttachOverlay)

\* waitForCanvasAndAttach has run and no interval is left.
InitDone == (overlay \/ interval = "cleared") /\ interval # "active"

\* C22: initialization terminates: the overlay is attached (and the
\* listeners installed) at most once, no attempt is made once it is
\* attached, polling stops after at most maxAttempts attempts, nothing is
\* raised, and in the end no interval is left.
C22_InitTerminates ==
    /\ [](/\ attempts <= maxAttempts
          /\ interval = "active" => ~overlay /\ attempts < maxAttempts
          /\ ~raised)
    /\ [][overlay => overlay' /\ lastOp'.op \notin {"attach", "setup"}]_vars
    /\ <>[]InitDone

\* C22 witnesses: the overlay attached by the last attempt of the budget,
\* and the budget used up without a canvas.
C22_Witness ==
    /\ overlay
    /\ attempts = maxAttempts
    /\ interval = "cleared"
    /\ Len(stickyNotes) > 0

(***************************************************************************)
(* SpecCommit: the ways an edit ends.  Notes are created, edited and typed *)
(* into; the focus leaves a content region for the body, another note or a *)
(* host input; Enter, Shift+Enter and Escape are pressed; the browser      *)
(* fires every pending timeout.                                            *)
(***************************************************************************)
CommitKeys ==
    {Key("t", FALSE, FALSE), Key("Enter", FALSE, FALSE),
     Key("Enter", FALSE, TRUE), Key("Escape", FALSE, FALSE)}

NextCommit ==
    \/ AttachOverlay
    \/ CanvasClick(PressPoint)
    \/ \E e \in CommitKeys : KeyDown(e)
    \/ KeyUpT
    \/ \E id \in 1..MaxId : DblClickContent(id)
    \/ \E txt \in Texts : UserTypes(txt)
    \/ \E id \in 1..MaxId : NoteMouseDown(id, FALSE)
    \/ OverlayMouseDown
    \/ HostInputFocus
    \/ TimerFires

SpecCommit == Init /\ [][NextCommit]_vars /\ WF_vars(TimerFires)

\* Note id is in the store and in the Editing state.
Editing(id) ==
    id \in Ids(stickyNotes) /\ Find(stickyNotes, id).isEditing

\* The step left note id out of Editing with the edit buffer as its text.
Committed(id) ==
    /\ id \in Ids(stickyNotes')
    /\ ~Find(stickyNotes', id).isEditing
    /\ Find(stickyNotes', id).text = Find(stickyNotes, id).buf

C24_ResizeOnlyFromSelected ==
    [][lastOp'.op = "resizeMouseDown" =>
          /\ Find(stickyNotes', lastOp'.id).isResizing
          /\ selectedNoteId' = lastOp'.id]_vars

\* C25: no note is at once Editing and Dragging or Resizing, nor at once
\* Dragging and Resizing (checked under SpecText, with one pointer).
C25_OneInteractionState ==
    \A i \in 1..Len(stickyNotes) :
        LET n == stickyNotes[i]
        IN /\ ~(n.isEditing /\ (n.isDragging \/ n.isResizing))
           /\ ~(n.isDragging /\ n.isResizing)

\* C26: once Escape has been handled no note is Dragging or Resizing, and
\* every note's stored position and size are the values from before the
\* gesture or the ones the gesture applied last (checked under SpecText).
C26_EscapeCancelsGesture ==
    [][KeyDown(Key("Escape", FALSE, FALSE)) =>
          \A id \in Ids(stickyNotes) \cap Ids(stickyNotes') :
              LET a == Find(stickyNotes, id)
                  b == Find(stickyNotes', id)
              IN /\ ~b.isDragging /\ ~b.isResizing
                 /\ b.canvasX = a.canvasX /\ b.canvasY = a.canvasY
                 /\ b.width \in {a.width} \cup
                       (IF a.isResizing THEN {a.startWidth} ELSE {})
                 /\ b.height \in {a.height} \cup
                       (IF a.isResizing THEN {a.startHeight} ELSE {})]_vars

(***************************************************************************)
(* SpecCreate: the creation-mode flag and the canvas click, under zooms    *)
(* and pans of the host and with the focus in the body, in a content       *)
(* region being edited or in a host input.                                 *)
(***************************************************************************)
NextCreate ==
    \/ AttachOverlay
    \/ \E t \in TrackTransforms : HostSetTransform(t)
    \/ KeyDown(Key("t", FALSE, FALSE))
    \/ KeyUpT
    \/ \E p \in ClickPoints : CanvasClick(p)
    \/ \E id \in 1..MaxId : DblClickContent(id)
    \/ HostInputFocus
    \/ OverlayMouseDown
    \/ TimerFires

SpecCreate == Init /\ [][NextCreate]_vars

\* The note a click at p created: at screenToCanvas(p), with the default
\* size, text and colour, and selected.
CreatedAt(n, p) ==
    LET c == screenToCanvas(p[1], p[2])
    IN /\ n.canvasX = c.x /\ n.canvasY = c.y
       /\ n.width = Px(DEFAULT_WIDTH) /\ n.height = Px(DEFAULT_HEIGHT)
       /\ n.text = DEFAULT_TEXT /\ n.color = DEFAULT_COLOR
       /\ n.selected /\ selectedNoteId' = n.id

\* C27: the creation-mode flag is set only by a T key press made while no
\* editable element has the focus and is reset by the next T key release or
\* window blur, which alone resets it; a canvas click creates a note if and
\* only if the flag is set, and the note it creates is at
\* screenToCanvas(click position), has the default size, text and colour and
\* is the selected note.
C27_CreationMode ==
    [][/\ (isTKeyHeld' /\ ~isTKeyHeld) =>
             KeyDown(Key("t", FALSE, FALSE)) /\ ~IsTyping
       /\ (IsTyping /\ KeyDown(Key("t", FALSE, FALSE))) =>
             isTKeyHeld' = isTKeyHeld
       /\ KeyUpT => ~isTKeyHeld'
       /\ (isTKeyHeld /\ ~isTKeyHeld') => lastOp'.op = "keyUpT"
       /\ \A p \in ClickPoints :
             CanvasClick(p) =>
                IF isTKeyHeld
                THEN /\ Len(stickyNotes') = Len(stickyNotes) + 1
                     /\ SubSeq(stickyNotes', 1, Len(stickyNotes))
                           = deselectAllNotes(stickyNotes, selectedNoteId)
                     /\ CreatedAt(stickyNotes'[Len(stickyNotes')], p)
                ELSE stickyNotes' = stickyNotes
       /\ Len(stickyNotes') > Len(stickyNotes) =>
             \E p \in ClickPoints : CanvasClick(p)]_vars

\* C27 witness: a click with the flag set created a note under a zoomed and
\* panned view, where its world position differs from the click position.
C27_Witness ==
    /\ lastOp.op = "createStickyNote"
    /\ isTKeyHeld
    /\ ds.scale # Unit /\ ds.ox # 0
    /\ Find(stickyNotes, lastOp.id).canvasX # Find(stickyNotes, lastOp.id).left
    /\ activeEl = Null

(***************************************************************************)
(* SpecClip: copy, paste and duplicate under zooms and pans of the host,   *)
(* on notes that are selected, recoloured and removed between the copy and *)
(* the paste.                                                              *)
(***************************************************************************)
NextClip ==
    \/ AttachOverlay
    \/ \E t \in TrackTransforms : HostSetTransform(t)
    \/ \E e \in ShortcutKeys : KeyDown(e)
    \/ KeyUpT
    \/ CanvasClick(PressPoint)
    \/ \E id \in 1..MaxId : NoteMouseDown(id, FALSE)
    \/ \E id \in 1..MaxId : ColorDotClick(id, "pink")
    \/ \E id \in 1..MaxId : CloseClick(id)

SpecClip == Init /\ [][NextClip]_vars

\* The snapshot copy takes of note n.
SnapshotOf(n) ==
    [kind |-> "note", width |-> n.width, height |-> n.height,
     text |-> n.text, color |-> n.color]

\* The step added one note, with an id never handed out before, selected
\* it, and left the notes that were there as they were (the one that was
\* selected loses the mark of the selection).
AddedOne ==
    LET new == stickyNotes'[Len(stickyNotes')]
    IN /\ Len(stickyNotes') = Len(stickyNotes) + 1
       /\ new.id > noteIdCounter
       /\ new.id \notin Ids(stickyNotes)
       /\ selectedNoteId' = new.id
       /\ new.selected
       /\ SubSeq(stickyNotes', 1, Len(stickyNotes))
             = deselectAllNotes(stickyNotes, selectedNoteId)

C29_Duplicate ==
    [][/\ lastOp'.op = "duplicate" =>
             LET S == Find(stickyNotes, selectedNoteId)
                 new == stickyNotes'[Len(stickyNotes')]
             IN /\ selectedNoteId \in Ids(stickyNotes)
                /\ AddedOne
                /\ new.canvasX = FAdd(S.canvasX, Px(DUPLICATE_OFFSET))
                /\ new.canvasY = FAdd(S.canvasY, Px(DUPLICATE_OFFSET))
                /\ SnapshotOf(new) = SnapshotOf(S)
                /\ clipboardNote' = clipboardNote
       /\ (selectedNoteId = Null /\ KeyDown(Key("d", TRUE, FALSE))) =>
             /\ stickyNotes' = stickyNotes
             /\ noteIdCounter' = noteIdCounter
             /\ selectedNoteId' = Null]_vars

\* C29 witness: the duplicate of a recoloured note under a zoomed and
\* panned view.
C29_Witness ==
    /\ lastOp.op = "duplicate"
    /\ ds.scale # Unit /\ ds.ox # 0
    /\ Len(stickyNotes) = 2
    /\ stickyNotes[2].color = "pink"
    /\ stickyNotes[2].canvasX # stickyNotes[2].left

(***************************************************************************)
(* The work of a polling tick (checked under SpecTrack).                   *)
(***************************************************************************)
\* Note b is note a with its element moved to where the host's transform
\* puts a's world position, and nothing else changed.
Resynced(a, b) ==
    /\ InSync(b)
    /\ b.canvasX = a.canvasX /\ b.canvasY = a.canvasY
    /\ [b EXCEPT !.left = a.left, !.top = a.top] = a

\* C30: a tick with an empty store changes neither a visual nor the
\* last-observed transform; with notes present it moves every note to its
\* place under the current transform when the scale or an offset differs
\* from the last-observed values, which then become the current ones; and
\* under an unchanged transform it leaves every visual and the
\* last-observed values as they are.
C30_TickWork ==
    [][lastOp'.op = "tick" =>
          IF Len(stickyNotes) = 0 \/ ds = last
          THEN stickyNotes' = stickyNotes /\ last' = last
          ELSE /\ Len(stickyNotes') = Len(stickyNotes)
               /\ \A i \in 1..Len(stickyNotes) :
                     Resynced(stickyNotes[i], stickyNotes'[i])
               /\ last' = ds]_vars

\* C30 witness: a tick has resynced a note under the zoomed and panned
\* view and recorded that transform.
C30_Witness ==
    /\ lastOp.op = "tick"
    /\ Len(stickyNotes) > 0
    /\ ds.scale # Unit /\ ds.ox # 0
    /\ last = ds
    /\ \A i \in 1..Len(stickyNotes) : InSync(stickyNotes[i])
    /\ stickyNotes[1].left # stickyNotes[1].canvasX

(***************************************************************************)
(* The deferred restore and the overlay.  The hooks are installed by       *)
(* setup() before waitForCanvasAndAttach, so a load and its restore can    *)
(* run while the overlay is still null.                                    *)
(***************************************************************************)
\* C31: a deferred restore that fires while the overlay has not been
\* attached raises no error and leaves no note in the store whose element
\* is not in the overlay.
C31_RestoreWaitsForOverlay ==
    [][(lastOp'.op = "restore" /\ ~overlay) =>
          /\ ~raised'
          /\ \A i \in 1..Len(stickyNotes') : stickyNotes'[i].attached]_vars

(***************************************************************************)
(* SpecDefaults: restores of records whose optional fields are missing,    *)
(* present, or present with a falsy value, at different times.             *)
(***************************************************************************)
\* A record whose text is the empty string and whose createdAt is 0.
FalsyRec == Rec(JNum(Px(10)), JNum(Px(20)), JNum(Px(50)), JNum(Px(40)),
                JStr(""), JStr("pink"), JNum(0))
DocFalsy == GraphData(6, TRUE, <<FalsyRec>>)

DefaultsDocuments == {DocPlain, DocSmall, DocFalsy}

NextDefaults ==
    \/ AttachOverlay
    \/ \E g \in DefaultsDocuments : LoadGraphData(g, ds)
    \/ TimerFires
    \/ ClockAdvance

SpecDefaults == Init /\ [][NextDefaults]_vars

\* The field of a restored note is the record's when the record has it, and
\* the default otherwise.
GivenOrDefault(field, stored, dflt) ==
    stored = (IF field.t = "undefined" THEN dflt ELSE field.v)

\* The restore of a document of DefaultsDocuments with the overlay attached
\* is the step taken (each of them holds one record).
DefaultsRestore ==
    /\ lastOp'.op = "restore"
    /\ overlay
    /\ Head(timers).data \in DefaultsDocuments

\* On such a restore, a field that is present and truthy is stored as
\* given and a missing one gets its default.
TruthyFieldsKept ==
    [][DefaultsRestore =>
          LET data == Head(timers).data.recs[1]
              n == stickyNotes'[Len(stickyNotes')]
          IN /\ Len(stickyNotes') = Len(stickyNotes) + 1
             /\ Truthy(data.text) => n.text = data.text.v
             /\ Truthy(data.createdAt) => n.createdAt = data.createdAt.v
             /\ data.text.t = "undefined" => n.text = DEFAULT_TEXT
             /\ data.createdAt.t = "undefined" => n.createdAt = now]_vars

\* C32: deserializeNotes substitutes a default only for an optional field
\* that is missing from the record: a field that is present is stored as
\* given, an empty-string text and a createdAt of 0 included.
C32_DefaultOnlyWhenMissing ==
    [][DefaultsRestore =>
          LET data == Head(timers).data.recs[1]
              n == stickyNotes'[Len(stickyNotes')]
          IN /\ Len(stickyNotes') = Len(stickyNotes) + 1
             /\ GivenOrDefault(data.text, n.text, DEFAULT_TEXT)
             /\ GivenOrDefault(data.color, n.color, DEFAULT_COLOR)
             /\ GivenOrDefault(data.createdAt, n.createdAt, now)
             /\ GivenOrDefault(data.width, n.width, Px(DEFAULT_WIDTH))
             /\ GivenOrDefault(data.height, n.height, Px(DEFAULT_HEIGHT))]_vars

(***************************************************************************)
(* SpecGone: notes removed (close button, Delete key, a load) while they   *)
(* are edited, dragged or resized, with the callbacks that were set up for *)
(* them arriving afterwards: the blur timeout, and the mousemove and       *)
(* mouseup events of the document.                                         *)
(***************************************************************************)
\* The listener fn of note n is registered on document.
Listens(n, fn) == [note |-> n.id, fn |-> fn] \in docListeners

\* mousemove on the document: the browser calls the listeners registered
\* there, whether or not a gesture is in progress.
DispatchMouseMove(p) ==
    /\ overlay
    /\ stickyNotes' =
          [i \in 1..Len(stickyNotes) |->
              LET n == stickyNotes[i]
                  d == IF Listens(n, "drag.onMouseMove")
                       THEN DragMove(n, p) ELSE n
              IN IF Listens(n, "resize.onMouseMove")
                 THEN ResizeMove(d, p) ELSE d]
    /\ raised' = FALSE
    /\ lastOp' = Op("mouseMove", Null)
    /\ UNCHANGED <<noteIdCounter, selectedNoteId, overlay, ds, last,
                   isTKeyHeld, clipboardNote, timers, activeEl, now, probe,
                   docListeners, attempts, interval>>

\* mouseup on the document, likewise.
DispatchMouseUp ==
    /\ overlay
    /\ stickyNotes' =
          [i \in 1..Len(stickyNotes) |->
              LET n == stickyNotes[i]
                  d == IF Listens(n, "drag.onMouseUp") THEN DragUp(n) ELSE n
              IN IF Listens(n, "resize.onMouseUp") THEN ResizeUp(d) ELSE d]
    /\ raised' = FALSE
    /\ lastOp' = Op("mouseUp", Null)
    /\ UNCHANGED <<noteIdCounter, selectedNoteId, overlay, ds, last,
                   isTKeyHeld, clipboardNote, timers, activeEl, now, probe,
                   docListeners, attempts, interval>>

GoneKeys == {Key("t", FALSE, FALSE), Key("Delete", FALSE, FALSE)}

NextGone ==
    \/ AttachOverlay
    \/ \E e \in GoneKeys : KeyDown(e)
    \/ CanvasClick(PressPoint)
    \/ \E id \in 1..MaxId : DblClickContent(id)
    \/ \E id \in 1..MaxId : NoteMouseDown(id, FALSE)
    \/ \E id \in 1..MaxId : NoGesture /\ HeaderMouseDown(id, PressPoint)
    \/ \E id \in 1..MaxId : NoGesture /\ ResizeMouseDown(id, PressPoint)
    \/ DispatchMouseMove(DragPoint)
          /\ WithinView(stickyNotes') /\ WithinSizeCap(stickyNotes')
    \/ DispatchMouseUp
    \/ \E id \in 1..MaxId : CloseClick(id)
    \/ LoadGraphData(DocNoNotes, ds)
    \/ TimerFires

SpecGone == Init /\ [][NextGone]_vars

\* Ids handed out to notes that are no longer in the store.
Gone == (1..noteIdCounter) \ Ids(stickyNotes)

\* The step leaves the store and the selection alone and does not raise.
NothingHappens ==
    /\ ~raised'
    /\ stickyNotes' = stickyNotes
    /\ selectedNoteId' = selectedNoteId

\* C33: an operation that refers to a note no longer in the store is a
\* no-op: removeNote of an absent id, the blur timeout of a removed note,
\* and a pointer move or release after the note in the gesture was removed
\* raise no error and leave the store, the selection and every live note as
\* they were.
C33_AbsentNoteIsNoOp ==
    [][/\ (lastOp'.op \in {"removeNote", "blurTimeout"}
              /\ lastOp'.id \in Gone) => NothingHappens
       /\ (lastOp'.op \in {"mouseMove", "mouseUp"} /\ Gone # {}) =>
             /\ ~raised'
             /\ selectedNoteId' = selectedNoteId
             /\ Len(stickyNotes') = Len(stickyNotes)
             /\ \A i \in 1..Len(stickyNotes) :
                   (~stickyNotes[i].isDragging /\ ~stickyNotes[i].isResizing)
                       => stickyNotes'[i] = stickyNotes[i]]_vars

\* The blur timeout of a note that was removed while it was being edited
\* has fired, with another note in the store.
C33_Witness ==
    /\ lastOp.op = "blurTimeout"
    /\ lastOp.id \in Gone
    /\ Len(stickyNotes) > 0
    /\ ~raised

(***************************************************************************)
(* SpecCode: parseMarkdown applied to one inline code span whose content   *)
(* is any text of up to MaxCode characters drawn from a letter, the bold   *)
(* and italic delimiters and <.                                            *)
(***************************************************************************)
MaxCode == 5

CodeChars == {"a", "*", "_", "<"}
CodeContents == UNION {[1..n -> CodeChars] : n \in 1..MaxCode}

InitCode ==
    /\ stickyNotes = <<>>
    /\ noteIdCounter = 0
    /\ selectedNoteId = Null
    /\ overlay = FALSE
    /\ ds = Identity
    /\ last = Identity
    /\ isTKeyHeld = FALSE
    /\ clipboardNote = NoClip
    /\ timers = <<>>
    /\ activeEl = Null
    /\ now = 1
    /\ raised = FALSE
    /\ lastOp = NoOp
    /\ probe \in {[fn |-> "text", lines |-> <<(<<BT>> \o c) \o <<BT>> >>] :
                     c \in CodeContents}
    /\ docListeners = {}
    /\ attempts = 0
    /\ interval = "active"

SpecCode == InitCode /\ [][NextMarkdown]_vars

\* The content of the code span that was rendered.
SpanContent == SubSeq(probe.text, 2, Len(probe.text) - 1)

\* The content, HTML-escaped, inside a single code element.
CodeElement(c) == (Chars("<code>") \o EscapeHtml(c)) \o Chars("</code>")

\* A code span whose content holds no * and no _ is rendered as a single
\* code element around the escaped content.
PlainSpanVerbatim ==
    (probe.fn = "parseMarkdown"
        /\ \A i \in 1..Len(SpanContent) : SpanContent[i] \in {"a", "<"})
      => probe.html = CodeElement(SpanContent)

\* C34: for any text c without backticks, parseMarkdown of c between two
\* backticks is c, HTML-escaped and otherwise verbatim, inside a single
\* code element: no bold, italic, strikethrough or link markup is made from
\* delimiters inside c.
C34_CodeSpanVerbatim ==
    probe.fn = "parseMarkdown" => probe.html = CodeElement(SpanContent)

(***************************************************************************)
(* Editing sessions of several notes (checked under SpecCommit).           *)
(***************************************************************************)
\* C35: at most one note is in the Editing state at any time, whatever the
\* order of double clicks on different notes, losses of focus and their
\* deferred commits.
C35_OneNoteEditing ==
    Cardinality({i \in 1..Len(stickyNotes) : stickyNotes[i].isEditing}) <= 1

\* C36: a double click on the content of a note that is already Editing
\* leaves the edit buffer as it is, so that the next commit stores what the
\* user had typed (checked under SpecCommit).
C36_DoubleClickKeepsInput ==
    [][\A id \in 1..MaxId :
          (Editing(id) /\ lastOp'.op = "startEditing" /\ lastOp'.id = id) =>
              /\ Editing(id)'
              /\ Find(stickyNotes', id).buf = Find(stickyNotes, id).buf]_vars

(***************************************************************************)
(* SpecStill: header drags in which the pointer does not move away: every  *)
(* mousemove is at the point of the press.  The host zooms and the polling *)
(* tick runs at any moment, between the press and the release too; a press *)
(* finds the view in step with the host's transform.                       *)
(***************************************************************************)
NextStill ==
    \/ AttachOverlay
    \/ KeyDown(Key("t", FALSE, FALSE))
    \/ CanvasClick(TextPoint) /\ Len(stickyNotes') <= 1
    \/ \E t \in ResizeScales : HostSetTransform(t)
    \/ Tick /\ WithinView(stickyNotes')
    \/ \E id \in 1..MaxId :
          /\ NoGesture /\ ds = last
          /\ \A i \in 1..Len(stickyNotes) : InSync(stickyNotes[i])
          /\ HeaderMouseDown(id, TextPoint)
    \/ DocMouseMove(TextPoint) /\ WithinView(stickyNotes')
    \/ DocMouseUp

SpecStill == Init /\ [][NextStill]_vars

\* A release with the view in step with the host's transform leaves every
\* world position alone when the host did not zoom during the drag (the
\* element is then where the press found it, on a whole pixel or not).
StillDragAtRest ==
    [][(lastOp'.op = "mouseUp" /\ ds = last
           /\ \A i \in 1..Len(stickyNotes) :
                 /\ InSync(stickyNotes[i])
                 /\ stickyNotes[i].left = OffsetLeft(stickyNotes[i])
                 /\ stickyNotes[i].top = OffsetTop(stickyNotes[i])) =>
          \A i \in 1..Len(stickyNotes) :
              /\ stickyNotes'[i].canvasX = stickyNotes[i].canvasX
              /\ stickyNotes'[i].canvasY = stickyNotes[i].canvasY]_vars

\* C37: a drag whose net pointer displacement is zero leaves the note's
\* stored world position unchanged, also when the host's transform changed
\* and a polling tick repositioned the element between the press and the
\* release (the release finds the view in step with the transform).
C37_StillDragKeepsPosition ==
    [][(lastOp'.op = "mouseUp" /\ ds = last) =>
          \A i \in 1..Len(stickyNotes) :
              /\ stickyNotes'[i].canvasX = stickyNotes[i].canvasX
              /\ stickyNotes'[i].canvasY = stickyNotes[i].canvasY]_vars

(***************************************************************************)
(* SpecSession: editing sessions one after another.  A double click        *)
(* starts a session on a note that is not Editing; Enter, Escape and the   *)
(* blur timeout end one; the focus leaves a content region for a new note, *)
(* another note's content or a host input.  The focus enters a content     *)
(* region only where a session starts, so a blur timeout that finds its    *)
(* note Editing with the focus was set before that session started.        *)
(***************************************************************************)
SessionKeys ==
    {Key("t", FALSE, FALSE), Key("Enter", FALSE, FALSE),
     Key("Escape", FALSE, FALSE)}

NextSession ==
    \/ AttachOverlay
    \/ \E e \in SessionKeys : KeyDown(e)
    \/ CanvasClick(PressPoint)
    \/ \E id \in 1..MaxId : ~Editing(id) /\ DblClickContent(id)
    \/ \E txt \in Texts : UserTypes(txt)
    \/ HostInputFocus
    \/ TimerFires

SpecSession == Init /\ [][NextSession]_vars

\* The blur timeout of note id is the step taken.
BlurTimeout(id) == TimerFires /\ Head(timers) = BlurTimer(id)

\* A blur timeout that finds its note Editing without the focus (the
\* session that lost the focus is still open) ends that session.
OpenSessionEnded ==
    [][\A id \in 1..MaxId :
          (BlurTimeout(id) /\ Editing(id) /\ activeEl # id) =>
              ~Editing(id)']_vars

\* C38: a blur timeout ends only the editing session in which the focus
\* was lost: when that session was committed and the note is Editing again
\* (with the focus) as the timeout fires, the note stays Editing and its
\* edit buffer is not committed.
C38_TimeoutEndsOwnSession ==
    [][\A id \in 1..MaxId :
          (BlurTimeout(id) /\ Editing(id) /\ activeEl = id) =>
              /\ Editing(id)'
              /\ Find(stickyNotes', id).text = Find(stickyNotes, id).text]_vars

(***************************************************************************)
(* SpecReload: stores built by the user (T+click, duplicate, header drags, *)
(* resizes, a colour change, an edit of a single note in progress) at      *)
(* different times, saved and loaded again.  Restored notes get fresh ids, *)
(* up to MaxReloadId.                                                      *)
(***************************************************************************)
MaxReloadId == 4

\* graph.serialize() and then app.loadGraphData of the saved document, with
\* its deferred restore, nothing coming in between: the serialize hook,
\* clearAllNotes, and deserializeNotes of what the hook stored under the
\* key.
SaveThenLoad ==
    /\ overlay
    /\ timers = <<>>
    /\ Len(stickyNotes) > 0
    /\ noteIdCounter + Len(stickyNotes) <= MaxReloadId
    /\ LET saved == hookGraphSerialization(HostData(1, FALSE, <<>>),
                                           stickyNotes)
           g == GraphValue(12, saved.hasExtra,
                           JArr(saved.extra[EXTENSION_KEY]))
           r == IF g.hasNotes
                THEN deserializeNotes(g.value, clearAllNotes(stickyNotes),
                                      noteIdCounter, g.doc)
                ELSE [notes |-> clearAllNotes(stickyNotes),
                      ctr |-> noteIdCounter, raised |-> FALSE]
       IN /\ stickyNotes' = r.notes
          /\ noteIdCounter' = r.ctr
          /\ raised' = r.raised
    /\ selectedNoteId' = clearAllNotesSel(selectedNoteId)
    /\ activeEl' = FocusAfterRemoval(clearAllNotes(stickyNotes))
    /\ lastOp' = Op("saveThenLoad", Null)
    /\ docListeners' =
          clearAllNotesListeners(docListeners, stickyNotes)
              \cup Registered(clearAllNotes(stickyNotes), stickyNotes')
    /\ UNCHANGED <<overlay, ds, last, isTKeyHeld, clipboardNote, timers, now,
                   probe, attempts, interval>>

ReloadKeys == {Key("t", FALSE, FALSE), Key("d", TRUE, FALSE)}

NextReload ==
    \/ AttachOverlay
    \/ \E e \in ReloadKeys : KeyDown(e)
    \/ CanvasClick(TextPoint)
    \/ \E id \in 1..MaxId : NoGesture /\ HeaderMouseDown(id, PressPoint)
    \/ \E id \in 1..MaxId : NoGesture /\ ResizeMouseDown(id, PressPoint)
    \/ DocMouseMove(DragPoint)
          /\ WithinView(stickyNotes') /\ WithinSizeCap(stickyNotes')
    \/ DocMouseUp
    \/ \E id \in 1..MaxId : ColorDotClick(id, "pink")
    \/ \E id \in 1..MaxId :
          Len(stickyNotes) = 1 /\ NoGesture /\ DblClickContent(id)
    \/ TimerFires
    \/ ClockAdvance
    \/ SaveThenLoad

SpecReload == Init /\ [][NextReload]_vars

\* C39: a save followed by a load of the saved records restores as many
\* notes as the store held, in the same order, each with the world
\* position, width, height, color and createdAt it had; no restored note
\* is selected or being edited.
C39_SaveLoadRestores ==
    [][lastOp'.op = "saveThenLoad" =>
          /\ ~raised'
          /\ Len(stickyNotes') = Len(stickyNotes)
          /\ selectedNoteId' = Null
          /\ \A i \in 1..Len(stickyNotes) :
                LET a == stickyNotes[i]
                    b == stickyNotes'[i]
                IN /\ b.id = noteIdCounter + i
                   /\ b.canvasX = a.canvasX /\ b.canvasY = a.canvasY
                   /\ b.width = a.width /\ b.height = a.height
                   /\ b.color = a.color
                   /\ b.createdAt = a.createdAt
                   /\ ~b.selected /\ ~b.isEditing]_vars

\* C39 witness: two notes came back from a save and load, at different
\* world positions, one of them pink, one resized, one created before the
\* current time.
C39_Witness ==
    /\ lastOp.op = "saveThenLoad"
    /\ Len(stickyNotes) = 2
    /\ stickyNotes[1].canvasX # stickyNotes[2].canvasX
    /\ \E i \in 1..2 : stickyNotes[i].color = "pink"
    /\ \E i \in 1..2 : stickyNotes[i].width # Px(DEFAULT_WIDTH)
    /\ \E i \in 1..2 : stickyNotes[i].createdAt < now
    /\ \A i \in 1..2 : stickyNotes[i].attached /\ ~stickyNotes[i].selected
====
